---- MODULE Spec2Model ----
(***************************************************************************)
(* Model of the chat router (server.cpp), its sorted handle table          *)
(* (Dynamic_Array.cpp, BinarySearchHelper.h), the poll set (pollLib.cpp)   *)
(* and the PDU codec (PDU_Send_And_Recv.cpp).                              *)
(*                                                                         *)
(* Bytes are naturals 0..255, byte strings are sequences of bytes.  C      *)
(* arrays are 0-based; the operators below keep the 0-based indices of the *)
(* source and add 1 when they index a TLA+ sequence.                       *)
(***************************************************************************)
EXTENDS Integers, Sequences, FiniteSets, TLC

----------------------------------------------------------------------------
(* Program constants *)

MAXIMUM_CHARACTERS == 100
INITIAL_CAPACITY == 10
RESIZE_FACTOR == 2
POLL_SET_SIZE == 10
SIZE_CHAT_HEADER == 3
MAXBUF == 1024
MAX_NAME_LEN == 100
MAX_TEXT_PER_PACKET == 200
VALID_ZERO_PAYLOAD == 0 - 2
POLLIN == 1

CLIENT_INIT_PACKET_TO_SERVER == 1
CONFIRM_GOOD_HANDLE == 2
ERROR_ON_INIT_PACKET == 3
BROADCAST_PACKET == 4
MESSAGE_PACKET == 5
ERROR_INVALID_HANDLE == 7
CLIENT_TO_SERVER_EXIT == 8
EXIT_ACK == 9
CLIENT_TO_SERVER_LIST_OF_HANDLES == 10
LIST_RESPONSE_NUM == 11
LIST_RESPONSE_HANDLE == 12
LIST_RESPONSE_END == 13

\* The listening socket: the first descriptor after stdin, stdout, stderr.
ServerSocket == 3

----------------------------------------------------------------------------
(* Bounds of the model *)

\* Largest number of client connections open or waiting at the same time.
MaxClients == 3
\* Largest number of client inputs in flight (sent, not yet read by the server).
MaxPending == 1

\* Handles that clients try to register: "a", "A", "B", "a\0".
Names == { <<97>>, <<65>>, <<66>>, <<97, 0>> }

\* Handles passed to the handle table when it is exercised on its own: the
\* same and "ab".
DirNames == Names \cup { <<97, 98>> }

\* Destination lists of the direct messages that clients send.
DestLists == { << >>, << <<97>> >>, << <<65>>, <<66>> >>,
               << <<97>>, <<97, 98>>, <<66>> >>, << <<97, 0>> >> }

ClientFds == (ServerSocket + 1) .. (ServerSocket + MaxClients)

\* Largest number of clients registered when the table and the poll set are
\* made to grow.
MaxGrow == 12

\* Largest number of frames written to a stream and not yet read from it.
MaxInFlight == 2

\* Largest number of messages that the clients send when the order of
\* processing is observed.
MaxSends == 3

----------------------------------------------------------------------------
(* C string and byte helpers *)

Min(a, b) == IF a < b THEN a ELSE b

\* tolower() in the C locale.
tolower(c) == IF c >= 65 /\ c <= 90 THEN c + 32 ELSE c

\* strlen(): index of the first NUL; the buffers the server passes are always
\* NUL-terminated right after their last byte.
strlen(s) ==
    LET Nuls == { i \in 0..(Len(s) - 1) : s[i + 1] = 0 }
    IN  IF Nuls = {} THEN Len(s)
        ELSE CHOOSE i \in Nuls : \A j \in Nuls : i <= j

\* The bytes a const char* argument denotes.
CString(s) == SubSeq(s, 1, strlen(s))

\* strncasecmp(s1, s2, n): compares at most n bytes, case folded, and stops at
\* a NUL that both strings have at the same position.
strncasecmp(s1, s2, n) ==
    LET Stops == { i \in 0..(n - 1) :
                     \/ tolower(s1[i + 1]) # tolower(s2[i + 1])
                     \/ s1[i + 1] = 0 }
    IN  IF Stops = {} THEN 0
        ELSE LET i == CHOOSE k \in Stops : \A j \in Stops : k <= j
             IN  tolower(s1[i + 1]) - tolower(s2[i + 1])

\* htonl(): the four bytes of a 32-bit value, most significant first.
htonl(n) == << (n \div 16777216) % 256, (n \div 65536) % 256,
               (n \div 256) % 256, n % 256 >>

\* The value of four bytes in network byte order.
ntohl(b) == b[1] * 16777216 + b[2] * 65536 + b[3] * 256 + b[4]

----------------------------------------------------------------------------
(* Handle table: Dynamic_Array and BinarySearchHelper *)

\* struct Handling.  Only the first handleLength bytes of the char[100]
\* buffer are ever read by the table or the router, so only they are kept.
Handling(bytes) == [handleLength |-> Len(bytes), handle |-> bytes]

\* A calloc'ed Entry_Handle_Table slot.
EmptyEntry == [socketNumber |-> 0, handle |-> Handling(<< >>)]

comparesHandles(h1, h2) ==
    LET minLen == Min(h1.handleLength, h2.handleLength)
        cmp == strncasecmp(h1.handle, h2.handle, minLen)
    IN  IF cmp = 0 THEN h1.handleLength - h2.handleLength ELSE cmp

RECURSIVE binarySearchLoop(_, _, _, _)
binarySearchLoop(arr, target, low, high) ==
    IF low > high THEN 0 - 1
    ELSE LET mid == low + ((high - low) \div 2)
             cmp == comparesHandles(arr[mid + 1].handle, target)
         IN  IF cmp = 0 THEN mid
             ELSE IF cmp < 0 THEN binarySearchLoop(arr, target, mid + 1, high)
             ELSE binarySearchLoop(arr, target, low, mid - 1)

\* Variant of binarySearch whose upper bound is one slot short.
binarySearch_SkipsLast(arr, cnt, target) ==
    binarySearchLoop(arr, target, 0, cnt - 2)

binarySearch(arr, cnt, target) ==
    binarySearchLoop(arr, target, 0, cnt - 1)

RECURSIVE findInsertionLoop(_, _, _, _)
findInsertionLoop(arr, target, low, high) ==
    IF low >= high THEN low
    ELSE LET mid == low + ((high - low) \div 2)
             cmp == comparesHandles(arr[mid + 1].handle, target)
         IN  IF cmp < 0 THEN findInsertionLoop(arr, target, mid + 1, high)
             ELSE findInsertionLoop(arr, target, low, mid)

findInsertionIndex(arr, cnt, target) ==
    findInsertionLoop(arr, target, 0, cnt)

\* A table value: the three fields of Dynamic_Array.
Table(arr, cnt, cap) == [array |-> arr, count |-> cnt, capacity |-> cap]

\* Variant of resize that does not copy the old contents.
resize_DropsContents(t, newCapacity) ==
    Table([i \in 1..newCapacity |-> EmptyEntry], t.count, newCapacity)

\* Dynamic_Array::resize: a zeroed array of newCapacity slots that starts with
\* the old contents.
resize(t, newCapacity) ==
    Table(t.array \o [i \in 1..(newCapacity - t.capacity) |-> EmptyEntry],
          t.count, newCapacity)

\* Dynamic_Array::addElement: [ret, table]
addElement(t, handle, newSocketNumber) ==
    IF binarySearch(t.array, t.count, handle) # 0 - 1
    THEN [ret |-> 0 - 1, table |-> t]
    ELSE LET insertIndex == findInsertionIndex(t.array, t.count, handle)
             r == IF t.count = t.capacity
                  THEN resize(t, t.capacity * RESIZE_FACTOR) ELSE t
             shifted == [k \in 1..r.capacity |->
                          IF k - 1 > insertIndex /\ k - 1 <= r.count
                          THEN r.array[k - 1] ELSE r.array[k]]
             stored == [socketNumber |-> newSocketNumber,
                        handle |-> Handling(SubSeq(handle.handle, 1,
                                                   handle.handleLength))]
         IN  [ret |-> 1,
              table |-> Table([shifted EXCEPT ![insertIndex + 1] = stored],
                              r.count + 1, r.capacity)]

\* Variant of removeAt that leaves the handle of the last live slot as it is.
removeAt_KeepsLastSlot(t, index) ==
    LET shifted == [k \in 1..t.capacity |->
                     IF k - 1 >= index /\ k - 1 < t.count - 1
                     THEN t.array[k + 1] ELSE t.array[k]]
    IN  Table(shifted, t.count - 1, t.capacity)

\* The left shift and clearing shared by both removals: the entry at index
\* is overwritten by its successors and the last live slot gets length 0 and
\* a zeroed name (its socketNumber is left as it was).
removeAt(t, index) ==
    LET shifted == [k \in 1..t.capacity |->
                     IF k - 1 >= index /\ k - 1 < t.count - 1
                     THEN t.array[k + 1] ELSE t.array[k]]
        cleared == [shifted EXCEPT ![t.count].handle = Handling(<< >>)]
    IN  Table(cleared, t.count - 1, t.capacity)

\* Dynamic_Array::removeElement(const char *handleName)
removeElement(t, handleName) ==
    LET target == Handling(CString(handleName))
        index == binarySearch(t.array, t.count, target)
    IN  IF index # 0 - 1 THEN removeAt(t, index) ELSE t

\* Dynamic_Array::removeElementBySocket
removeElementBySocket(t, socketNumber) ==
    LET Hits == { i \in 0..(t.count - 1) : t.array[i + 1].socketNumber = socketNumber }
    IN  IF Hits = {} THEN t
        ELSE removeAt(t, CHOOSE i \in Hits : \A j \in Hits : i <= j)

\* Dynamic_Array::getSocketForHandle(const char *handleName)
getSocketForHandle(t, handleName) ==
    LET target == Handling(CString(handleName))
        index == binarySearch(t.array, t.count, target)
    IN  IF index # 0 - 1 THEN t.array[index + 1].socketNumber ELSE 0 - 1

----------------------------------------------------------------------------
(* State *)

VARIABLES
    clientTable,          \* the global Dynamic_Array: array, count, capacity
    pollFileDescriptors,  \* pollLib: the pollfd array, indexed 0..size-1
    maxFileDescriptor,    \* pollLib: number of slots handed to poll()
    currentPollSetSize,   \* pollLib: allocated slots
    open,                 \* client descriptors the server holds open
    backlog,              \* connections waiting in the listen queue, each
                          \* with the first thing its client sends
    inq,                  \* per open descriptor: client input not yet read
    out,                  \* PDUs written by the handler that ran last
    trace,                \* that handler's effects, in the order it made them
    inserted,             \* history of the handle table exercised on its own:
                          \* the handles whose addElement has succeeded
    running,              \* the process has not exited
    sendFails,            \* descriptors on which send() reports an error
    wire,                 \* the codec on its own: the bytes written to a
                          \* stream by sendBuf and not yet read by recvBuf
    history,              \* observation of the order of processing: per
                          \* descriptor, the messages its client has sent
                          \* (sent), the PDUs written to it (delivered), and
                          \* the wakes at which it had input and another
                          \* descriptor was served (skipped); and the
                          \* entries that have left the directory (released)
    last                  \* what the last step was

vars == << clientTable, pollFileDescriptors, maxFileDescriptor,
           currentPollSetSize, open, backlog, inq, out, trace, inserted,
           running, sendFails, wire, history, last >>

\* What the server finds on a client's stream when it reads the next PDU:
\*   kind "pdu"    a 3-byte header declaring a PDU of total bytes, type flag,
\*                 followed by the bytes of payload; after them the stream
\*                 goes on ("idle": nothing more for now) or ends ("fin");
\*   kind "close"  the orderly end of the stream;
\*   kind "error"  a connection error (recv() returns a negative value);
\*   kind "stall"  fewer bytes than a header and nothing more for now.
Bytes(kind, flag, payload, total, then) ==
    [kind |-> kind, flag |-> flag, payload |-> payload, total |-> total,
     then |-> then]

\* One whole frame, as sendBuf writes it.
Frame(flag, payload) ==
    Bytes("pdu", flag, payload, Len(payload) + SIZE_CHAT_HEADER, "idle")
EndOfStream == Bytes("close", 0, << >>, 0, "fin")
RecvError == Bytes("error", 0, << >>, 0, "fin")
Stall == Bytes("stall", 0, << >>, 0, "idle")

\* [1-byte length][bytes]
LenPrefixed(bytes) == << Len(bytes) >> \o bytes

RECURSIVE ConcatAll(_)
ConcatAll(ss) == IF ss = << >> THEN << >> ELSE Head(ss) \o ConcatAll(Tail(ss))

\* Payload of a direct message: sender, destination count, destinations, text.
MessagePayload(sender, dests, text) ==
    LenPrefixed(sender) \o << Len(dests) >>
        \o ConcatAll([i \in 1..Len(dests) |-> LenPrefixed(dests[i])]) \o text

\* First inputs of a new connection.
FirstInputs ==
    { Frame(CLIENT_INIT_PACKET_TO_SERVER, LenPrefixed(h)) : h \in Names }
    \cup { Frame(BROADCAST_PACKET, << 1, 97, 120 >>),          \* wrong type
           Frame(CLIENT_INIT_PACKET_TO_SERVER, << 0 >>),       \* length 0
           Frame(CLIENT_INIT_PACKET_TO_SERVER, << 3, 97 >>),   \* length > bytes
           Frame(CLIENT_INIT_PACKET_TO_SERVER, << >>),         \* no payload
           EndOfStream }

\* Inputs of a registered connection.
ClientInputs ==
    { Frame(MESSAGE_PACKET, MessagePayload(<<97>>, d, <<120, 0>>)) : d \in DestLists }
    \cup { Frame(BROADCAST_PACKET, << 1, 97, 120, 0 >>),
           Frame(BROADCAST_PACKET, << 5, 97 >>),               \* sender length > bytes
           Frame(CLIENT_TO_SERVER_EXIT, << >>),
           Frame(CLIENT_TO_SERVER_LIST_OF_HANDLES, << >>),
           Frame(CLIENT_INIT_PACKET_TO_SERVER, << 1, 98 >>),   \* not valid once registered
           EndOfStream }

RECURSIVE SumLen(_, _)
SumLen(f, S) ==
    IF S = {} THEN 0
    ELSE LET x == CHOOSE y \in S : TRUE IN Len(f[x]) + SumLen(f, S \ {x})

Pending == Len(backlog) + SumLen(inq, ClientFds)

NoStep == [op |-> "none", sock |-> 0, flag |-> 0, len |-> 0, payload |-> << >>]

Init ==
    /\ clientTable = Table([i \in 1..INITIAL_CAPACITY |-> EmptyEntry], 0,
                           INITIAL_CAPACITY)
    /\ pollFileDescriptors =
          [i \in 0..(POLL_SET_SIZE - 1) |->
              IF i = ServerSocket THEN [fd |-> ServerSocket, events |-> POLLIN]
              ELSE [fd |-> 0, events |-> 0]]
    /\ maxFileDescriptor = ServerSocket + 1
    /\ currentPollSetSize = POLL_SET_SIZE
    /\ open = {}
    /\ backlog = << >>
    /\ inq = [fd \in ClientFds |-> << >>]
    /\ out = << >>
    /\ trace = << >>
    /\ inserted = {}
    /\ running = TRUE
    /\ sendFails = {}
    /\ wire = << >>
    /\ history = [sent |-> [fd \in ClientFds |-> 0],
                  delivered |-> [fd \in ClientFds |-> << >>],
                  skipped |-> [fd \in ClientFds |-> 0],
                  released |-> {}]
    /\ last = NoStep

----------------------------------------------------------------------------
(* pollLib *)

PollSet(pfds, maxfd, size) ==
    [pollFileDescriptors |-> pfds, maxFileDescriptor |-> maxfd,
     currentPollSetSize |-> size]

growPollSet(ps, newSetSize) ==
    PollSet([i \in 0..(newSetSize - 1) |->
                IF i < ps.currentPollSetSize THEN ps.pollFileDescriptors[i]
                ELSE [fd |-> 0, events |-> 0]],
            ps.maxFileDescriptor, newSetSize)

addToPollSet(ps, socketNumber) ==
    LET g == IF socketNumber >= ps.currentPollSetSize
             THEN growPollSet(ps, socketNumber + POLL_SET_SIZE) ELSE ps
    IN  PollSet([g.pollFileDescriptors EXCEPT
                    ![socketNumber] = [fd |-> socketNumber, events |-> POLLIN]],
                IF socketNumber + 1 >= g.maxFileDescriptor
                THEN socketNumber + 1 ELSE g.maxFileDescriptor,
                g.currentPollSetSize)

\* Variant of removeFromPollSet that clears the slot's fd and leaves its
\* events as they are.
removeFromPollSet_KeepsEvents(ps, socketNumber) ==
    PollSet([ps.pollFileDescriptors EXCEPT ![socketNumber].fd = 0],
            ps.maxFileDescriptor, ps.currentPollSetSize)

removeFromPollSet(ps, socketNumber) ==
    PollSet([ps.pollFileDescriptors EXCEPT
                ![socketNumber] = [fd |-> 0, events |-> 0]],
            ps.maxFileDescriptor, ps.currentPollSetSize)

\* Input is waiting on descriptor i.
HasInput(i) ==
    IF i = ServerSocket THEN backlog # << >>
    ELSE i \in ClientFds /\ inq[i] # << >>

\* pollCall(-1): the lowest-numbered slot below maxFileDescriptor whose
\* revents is set, once poll() reports one; the server blocks until then.
ReadySlots ==
    { i \in 0..(maxFileDescriptor - 1) :
        /\ pollFileDescriptors[i].events = POLLIN
        /\ HasInput(pollFileDescriptors[i].fd) }

\* Variant of pollCall that returns the last slot whose revents is set.
pollCall_LastReady ==
    IF ReadySlots = {} THEN 0 - 1
    ELSE CHOOSE i \in ReadySlots : \A j \in ReadySlots : i >= j

pollCall ==
    IF ReadySlots = {} THEN 0 - 1
    ELSE CHOOSE i \in ReadySlots : \A j \in ReadySlots : i <= j

----------------------------------------------------------------------------
(* PDU codec *)

\* The length argument of the second recv(): int payloadLength converted to
\* size_t.  A negative length becomes 2^64 + n, more than any stream ever
\* holds; the largest number the model checker represents stands for it.
SizeT(n) == IF n < 0 THEN 2147483647 ELSE n

\* recv(.., MSG_WAITALL) in recvBuf does not return: the header has not
\* arrived in full, or fewer payload bytes than asked for have arrived, and
\* the stream is still open.
recvBlocks(item) ==
    \/ item.kind = "stall"
    \/ /\ item.kind = "pdu"
       /\ item.total - SIZE_CHAT_HEADER # 0
       /\ Len(item.payload) < SizeT(item.total - SIZE_CHAT_HEADER)
       /\ item.then = "idle"

\* recvBuf on a stream whose next input is item, once its recv() calls have
\* returned: the return value, the flag and the payload bytes written to the
\* caller's buffer.  On a closed stream the flag is not written; the callers
\* do not branch on it in that case.  exit: the process was ended by
\* exit(EXIT_FAILURE).  written: the number of bytes recv() stored through
\* dataBuffer.
recvBuf(item) ==
    IF item.kind = "error"
    THEN [len |-> 0, flag |-> 0, buffer |-> << >>, exit |-> TRUE, written |-> 0]
    ELSE IF item.kind = "close"
    THEN [len |-> 0 - 1, flag |-> 0, buffer |-> << >>, exit |-> FALSE,
          written |-> 0]
    ELSE LET pduLength == item.total
             payloadLength == pduLength - SIZE_CHAT_HEADER
             payloadBytes == Min(SizeT(payloadLength), Len(item.payload))
         IN  IF payloadLength = 0
             THEN [len |-> VALID_ZERO_PAYLOAD, flag |-> item.flag,
                   buffer |-> << >>, exit |-> FALSE, written |-> 0]
             ELSE IF payloadBytes = 0
             THEN [len |-> 0 - 1, flag |-> item.flag, buffer |-> << >>,
                   exit |-> FALSE, written |-> 0]
             ELSE [len |-> payloadBytes, flag |-> item.flag,
                   buffer |-> SubSeq(item.payload, 1, payloadBytes),
                   exit |-> FALSE, written |-> payloadBytes]

\* One PDU written to a socket.
Pdu(sock, flag, payload) == [sock |-> sock, flag |-> flag, payload |-> payload]

\* htons(): the two bytes of a 16-bit value, most significant first.
htons(n) == << (n \div 256) % 256, n % 256 >>

\* ntohs() of the two bytes b1, b2 as they lie in memory.
ntohs(b1, b2) == b1 * 256 + b2

\* Variant of PDU_Buffer whose length field is not converted by htons.
PDU_Buffer_HostOrder(dataBuffer, lengthOfData, flagValue) ==
    LET totalLength == (lengthOfData + SIZE_CHAT_HEADER) % 65536
        header == << totalLength % 256, (totalLength \div 256) % 256,
                     flagValue % 256 >>
    IN  SubSeq(header \o SubSeq(dataBuffer, 1, lengthOfData), 1, totalLength)

\* The totalLength bytes that sendBuf assembles in PDU_Buffer and writes:
\* the packed header (uint16_t length in network order, uint8_t flag), then
\* the payload.
PDU_Buffer(dataBuffer, lengthOfData, flagValue) ==
    LET totalLength == (lengthOfData + SIZE_CHAT_HEADER) % 65536
        header == htons(totalLength) \o << flagValue % 256 >>
    IN  SubSeq(header \o SubSeq(dataBuffer, 1, lengthOfData), 1, totalLength)

\* What recvBuf finds at the front of a stream of bytes: the header, if three
\* bytes are there, and as many of the payload bytes it announces as are
\* there.
NextOnStream(stream) ==
    IF Len(stream) < SIZE_CHAT_HEADER THEN Stall
    ELSE LET pduLength == ntohs(stream[1], stream[2])
             want == SizeT(pduLength - SIZE_CHAT_HEADER)
             have == Min(Len(stream) - SIZE_CHAT_HEADER, want)
         IN  Bytes("pdu", stream[3],
                   SubSeq(stream, SIZE_CHAT_HEADER + 1, SIZE_CHAT_HEADER + have),
                   pduLength, "idle")

----------------------------------------------------------------------------
(* Server handlers.  A handler works on a record st of the server's state  *)
(* (table, ps, open), of the PDUs it has written so far (out) and of the   *)
(* order of its effects (ev).                                              *)

ServerState == [table |-> clientTable,
                ps |-> PollSet(pollFileDescriptors, maxFileDescriptor,
                               currentPollSetSize),
                open |-> open,
                out |-> << >>,
                ev |-> << >>,
                alive |-> running]

\* exit(EXIT_FAILURE): nothing that follows in the handler is executed.
Exit(st) == [st EXCEPT !.alive = FALSE, !.ev = Append(@, "exit")]

\* recv() has stored more bytes than the caller's buffer[MAXBUF] holds.
Overflows(r) == r.written > MAXBUF

\* What the process does after bytes behind a buffer were overwritten is not
\* defined: it is ended (crash), or it goes on with what it read.
Crash(st) == [st EXCEPT !.alive = FALSE, !.ev = Append(@, "crash")]

\* The outcomes of a handler whose recvBuf returned r: crash or not, where
\* the handler writes behind a buffer.
CrashChoices(r) ==
    IF Overflows(r) \/ (r.len >= 1 /\ r.buffer[1] = MAXIMUM_CHARACTERS)
    THEN BOOLEAN ELSE {FALSE}

\* forwardBroadcast copies senderLen bytes, up to 255, to its local
\* sender[MaxNameLen + 1] once the payload holds that many.
SenderOverflows(r) ==
    /\ r.flag = BROADCAST_PACKET
    /\ r.len >= 1
    /\ r.len >= 1 + r.buffer[1]
    /\ r.buffer[1] > MAXIMUM_CHARACTERS

\* The outcomes of forwardBroadcast for r: none, or the process is ended at
\* the copy ("before" the sends), or when the function returns ("after").
SenderCrashChoices(r) ==
    IF SenderOverflows(r) THEN { "none", "before", "after" } ELSE { "none" }

\* sendBuf: the whole frame is written, or send() fails and the process
\* exits.
sendBuf(st, socketNumber, dataBuffer, flagValue) ==
    IF ~st.alive THEN st
    ELSE IF socketNumber \in sendFails THEN Exit(st)
    ELSE [st EXCEPT !.out = Append(@, Pdu(socketNumber, flagValue, dataBuffer)),
                    !.ev = Append(@, "send")]

safeSend(st, socketNum, payload, flag) == sendBuf(st, socketNum, payload, flag)

removeClientBySocket(st, clientSocket) ==
    IF ~st.alive THEN st
    ELSE [st EXCEPT !.table = removeElementBySocket(@, clientSocket),
                    !.ev = Append(@, "remove")]

\* removeFromPollSet(clientSocket); close(clientSocket);
UnwatchAndClose(st, clientSocket) ==
    IF ~st.alive THEN st
    ELSE [st EXCEPT !.ps = removeFromPollSet(@, clientSocket),
                    !.open = @ \ {clientSocket},
                    !.ev = @ \o << "unwatch", "close" >>]

\* Variant of cleanupClient that leaves the client's entry in the table.
cleanupClient_KeepsEntry(st, clientSocket) ==
    UnwatchAndClose(st, clientSocket)

cleanupClient(st, clientSocket) ==
    UnwatchAndClose(removeClientBySocket(st, clientSocket), clientSocket)

verifyPacketLength(receivedLen, expectedMin) == receivedLen >= expectedMin

\* Variant of extractHandleFromRegistration without the test for length 0.
extractHandleFromRegistration_AllowsZero(buffer, len, maxNameLen) ==
    IF len < 1 THEN [ok |-> FALSE, handle |-> << >>, handleLen |-> 0]
    ELSE LET handleLen == buffer[1]
         IN  IF handleLen > maxNameLen \/ len < 1 + handleLen
             THEN [ok |-> FALSE, handle |-> << >>, handleLen |-> handleLen]
             ELSE [ok |-> TRUE, handle |-> SubSeq(buffer, 2, 1 + handleLen),
                   handleLen |-> handleLen]

\* extractHandleFromRegistration: [ok, handle, handleLen]
extractHandleFromRegistration(buffer, len, maxNameLen) ==
    IF len < 1 THEN [ok |-> FALSE, handle |-> << >>, handleLen |-> 0]
    ELSE LET handleLen == buffer[1]
         IN  IF handleLen = 0 \/ handleLen > maxNameLen \/ len < 1 + handleLen
             THEN [ok |-> FALSE, handle |-> << >>, handleLen |-> handleLen]
             ELSE [ok |-> TRUE, handle |-> SubSeq(buffer, 2, 1 + handleLen),
                   handleLen |-> handleLen]

\* processNewClient after tcpAccept returned clientSocket and recvBuf
\* returned r.  newHandle.handle has MAXIMUM_CHARACTERS bytes, so the
\* terminator written at newHandle.handle[handleLen] lands behind the array
\* when handleLen is MAXIMUM_CHARACTERS: what follows is not defined, the
\* process is ended (crash) or goes on.
processNewClient(st0, clientSocket, r, crash) ==
    LET st == [st0 EXCEPT !.open = @ \cup {clientSocket}]
    IN  IF r.exit THEN Exit(st)
        ELSE IF ~verifyPacketLength(r.len, 1) \/ r.flag # CLIENT_INIT_PACKET_TO_SERVER
        THEN cleanupClient(st, clientSocket)
        ELSE LET x == extractHandleFromRegistration(r.buffer, r.len,
                                                    MAXIMUM_CHARACTERS)
             IN  IF ~x.ok
                 THEN cleanupClient(sendBuf(st, clientSocket, << >>,
                                            ERROR_ON_INIT_PACKET), clientSocket)
                 ELSE IF getSocketForHandle(st.table, x.handle) # 0 - 1
                 THEN cleanupClient(sendBuf(st, clientSocket, << >>,
                                            ERROR_ON_INIT_PACKET), clientSocket)
                 ELSE IF x.handleLen >= MAXIMUM_CHARACTERS /\ crash
                 THEN Crash(st)
                 ELSE LET newHandle == [handleLength |-> x.handleLen,
                                        handle |-> x.handle]
                          a == addElement(st.table, newHandle, clientSocket)
                      IN  IF a.ret < 0
                          THEN cleanupClient(sendBuf(st, clientSocket, << >>,
                                                 ERROR_ON_INIT_PACKET), clientSocket)
                          ELSE LET s1 == sendBuf([st EXCEPT !.table = a.table,
                                                            !.ev = Append(@, "insert")],
                                                 clientSocket, << >>,
                                                 CONFIRM_GOOD_HANDLE)
                               IN  IF ~s1.alive THEN s1
                                   ELSE [s1 EXCEPT !.ps = addToPollSet(@, clientSocket),
                                                   !.ev = Append(@, "watch")]

\* forwardBroadcast: the loop over slots i..cap-1.
RECURSIVE forwardBroadcastLoop(_, _, _, _)
forwardBroadcastLoop(st, senderSocket, payload, i) ==
    IF i >= st.table.capacity THEN st
    ELSE LET e == st.table.array[i + 1]
         IN  IF e.handle.handleLength # 0 /\ e.socketNumber # senderSocket
             THEN forwardBroadcastLoop(
                      safeSend(st, e.socketNumber, payload, BROADCAST_PACKET),
                      senderSocket, payload, i + 1)
             ELSE forwardBroadcastLoop(st, senderSocket, payload, i + 1)

\* Variant of forwardBroadcast that does not leave out the sender.
forwardBroadcast_ToSenderToo(st, senderSocket, payload, payloadLen) ==
    IF payloadLen < 1 THEN st
    ELSE IF payloadLen < 1 + payload[1] THEN st
    ELSE forwardBroadcastLoop(st, 0 - 1, payload, 0)

\* Variant of forwardBroadcast that puts the handle registered for the
\* sender's connection in the place of the sender bytes it received.
forwardBroadcast_StampsSender(st, senderSocket, payload, payloadLen) ==
    IF payloadLen < 1 THEN st
    ELSE IF payloadLen < 1 + payload[1] THEN st
    ELSE LET i == CHOOSE k \in 1..st.table.count :
                      st.table.array[k].socketNumber = senderSocket
             registered == st.table.array[i].handle.handle
         IN  forwardBroadcastLoop(st, senderSocket,
                 LenPrefixed(registered)
                     \o SubSeq(payload, 2 + payload[1], Len(payload)), 0)

forwardBroadcast(st, senderSocket, payload, payloadLen) ==
    IF payloadLen < 1 THEN st
    ELSE IF payloadLen < 1 + payload[1] THEN st
    ELSE forwardBroadcastLoop(st, senderSocket, payload, 0)

\* parseSenderAndDestinations: [ok, offset, numDest]
parseSenderAndDestinations(payload, payloadLen, maxSenderSize) ==
    IF payloadLen < 1 THEN [ok |-> FALSE, offset |-> 0, numDest |-> 0]
    ELSE LET senderLen == payload[1]
         IN  IF payloadLen < 1 + senderLen + 1 \/ senderLen >= maxSenderSize
             THEN [ok |-> FALSE, offset |-> 1, numDest |-> 0]
             ELSE [ok |-> TRUE, offset |-> 1 + senderLen + 1,
                   numDest |-> payload[1 + senderLen + 1]]

\* getNextDestinationHandle: [ok, offset, dest]
getNextDestinationHandle(payload, payloadLen, offset, maxDestSize) ==
    IF offset >= payloadLen THEN [ok |-> FALSE, offset |-> offset, dest |-> << >>]
    ELSE LET destLen == payload[offset + 1]
         IN  IF offset + 1 + destLen > payloadLen \/ destLen >= maxDestSize
             THEN [ok |-> FALSE, offset |-> offset + 1, dest |-> << >>]
             ELSE [ok |-> TRUE, offset |-> offset + 1 + destLen,
                   dest |-> SubSeq(payload, offset + 2, offset + 1 + destLen)]

\* sendErrorForInvalidHandle(senderSocket, const char *destHandle)
sendErrorForInvalidHandle(st, senderSocket, destHandle) ==
    LET hLen == strlen(destHandle)
    IN  safeSend(st, senderSocket, << hLen >> \o SubSeq(destHandle, 1, hLen),
                 ERROR_INVALID_HANDLE)

\* forwardDirectMessage: the loop over destinations i..numDest-1.
RECURSIVE forwardDirectMessageLoop(_, _, _, _, _, _)
forwardDirectMessageLoop(st, senderSocket, payload, offset, numDest, i) ==
    IF i >= numDest THEN st
    ELSE LET d == getNextDestinationHandle(payload, Len(payload), offset,
                                           MAXIMUM_CHARACTERS + 1)
         IN  IF ~d.ok THEN st
             ELSE LET destSocket == getSocketForHandle(st.table, d.dest)
                      s1 == IF destSocket = 0 - 1
                            THEN sendErrorForInvalidHandle(st, senderSocket, d.dest)
                            ELSE safeSend(st, destSocket, payload, MESSAGE_PACKET)
                  IN  forwardDirectMessageLoop(s1, senderSocket, payload,
                                               d.offset, numDest, i + 1)

\* Variant of forwardDirectMessage that returns after the first destination.
forwardDirectMessage_FirstOnly(st, senderSocket, payload, payloadLen) ==
    LET p == parseSenderAndDestinations(payload, payloadLen,
                                        MAXIMUM_CHARACTERS + 1)
    IN  IF ~p.ok THEN st
        ELSE forwardDirectMessageLoop(st, senderSocket, payload, p.offset,
                                      Min(p.numDest, 1), 0)

forwardDirectMessage(st, senderSocket, payload, payloadLen) ==
    LET p == parseSenderAndDestinations(payload, payloadLen,
                                        MAXIMUM_CHARACTERS + 1)
    IN  IF ~p.ok THEN st
        ELSE forwardDirectMessageLoop(st, senderSocket, payload, p.offset,
                                      p.numDest, 0)

\* processClientExit
processClientExit(st, clientSocket) ==
    LET s1 == safeSend(st, clientSocket, << >>, EXIT_ACK)
        s2 == removeClientBySocket(s1, clientSocket)
    IN  UnwatchAndClose(s2, clientSocket)

\* Variant of sendListCount that sends the count in little-endian order.
sendListCount_HostOrder(st, clientSocket, numHandles) ==
    LET b == htonl(numHandles)
    IN  safeSend(st, clientSocket, << b[4], b[3], b[2], b[1] >>, LIST_RESPONSE_NUM)

sendListCount(st, clientSocket, numHandles) ==
    safeSend(st, clientSocket, htonl(numHandles), LIST_RESPONSE_NUM)

sendHandleEntry(st, clientSocket, handle, handleLen) ==
    safeSend(st, clientSocket, << handleLen >> \o SubSeq(handle, 1, handleLen),
             LIST_RESPONSE_HANDLE)

sendEndOfListMarker(st, clientSocket) ==
    safeSend(st, clientSocket, << >>, LIST_RESPONSE_END)

\* processListRequest: the loop over slots i..cap-1.
RECURSIVE processListLoop(_, _, _)
processListLoop(st, clientSocket, i) ==
    IF i >= st.table.capacity THEN st
    ELSE LET e == st.table.array[i + 1]
         IN  IF e.handle.handleLength # 0
             THEN processListLoop(
                      sendHandleEntry(st, clientSocket, e.handle.handle,
                                      e.handle.handleLength),
                      clientSocket, i + 1)
             ELSE processListLoop(st, clientSocket, i + 1)

\* Variant of processListRequest that announces the number of slots of the
\* table instead of the number of its entries.
processListRequest_CountsSlots(st, clientSocket) ==
    LET s1 == sendListCount(st, clientSocket, st.table.capacity)
        s2 == processListLoop(s1, clientSocket, 0)
    IN  sendEndOfListMarker(s2, clientSocket)

processListRequest(st, clientSocket) ==
    LET s1 == sendListCount(st, clientSocket, st.table.count)
        s2 == processListLoop(s1, clientSocket, 0)
    IN  sendEndOfListMarker(s2, clientSocket)

\* Variant of dispatchPacket that closes a connection that sends a type it
\* does not know.
dispatchPacket_ClosesOnUnknown(st, clientSocket, flag, buffer, len) ==
    CASE flag = BROADCAST_PACKET -> forwardBroadcast(st, clientSocket, buffer, len)
      [] flag = MESSAGE_PACKET -> forwardDirectMessage(st, clientSocket, buffer, len)
      [] flag = CLIENT_TO_SERVER_EXIT -> processClientExit(st, clientSocket)
      [] flag = CLIENT_TO_SERVER_LIST_OF_HANDLES -> processListRequest(st, clientSocket)
      [] OTHER -> cleanupClient(st, clientSocket)

dispatchPacket(st, clientSocket, flag, buffer, len) ==
    CASE flag = BROADCAST_PACKET -> forwardBroadcast(st, clientSocket, buffer, len)
      [] flag = MESSAGE_PACKET -> forwardDirectMessage(st, clientSocket, buffer, len)
      [] flag = CLIENT_TO_SERVER_EXIT -> processClientExit(st, clientSocket)
      [] flag = CLIENT_TO_SERVER_LIST_OF_HANDLES -> processListRequest(st, clientSocket)
      [] OTHER -> st

\* Variant of processClientPacket that takes every negative return value of
\* recvBuf for a closed connection.
processClientPacket_ZeroIsClose(st, clientSocket, r) ==
    IF r.exit THEN Exit(st)
    ELSE IF r.len < 0
    THEN cleanupClient(st, clientSocket)
    ELSE dispatchPacket(st, clientSocket, r.flag, r.buffer, r.len)

\* processClientPacket after recvBuf returned r.
processClientPacket(st, clientSocket, r) ==
    IF r.exit THEN Exit(st)
    ELSE IF r.len < 0 /\ r.len # VALID_ZERO_PAYLOAD
    THEN cleanupClient(st, clientSocket)
    ELSE dispatchPacket(st, clientSocket, r.flag, r.buffer,
                        IF r.len = VALID_ZERO_PAYLOAD THEN 0 ELSE r.len)

\* tcpAccept: the kernel hands out the lowest free descriptor.
tcpAccept == CHOOSE fd \in ClientFds \ open : \A g \in ClientFds \ open : fd <= g

----------------------------------------------------------------------------
(* Actions *)

\* The server's variables take the values a handler left in st.
Commit(st) ==
    /\ clientTable' = st.table
    /\ pollFileDescriptors' = st.ps.pollFileDescriptors
    /\ maxFileDescriptor' = st.ps.maxFileDescriptor
    /\ currentPollSetSize' = st.ps.currentPollSetSize
    /\ open' = st.open
    /\ out' = st.out
    /\ trace' = st.ev
    /\ running' = st.alive
    /\ sendFails' = sendFails \cap st.open
    /\ UNCHANGED << inserted, wire >>

ServerUnchanged ==
    UNCHANGED << clientTable, pollFileDescriptors, maxFileDescriptor,
                 currentPollSetSize, open, inserted, running, wire, history >>

\* A client connects and sends its first input.
ClientConnect(item) ==
    /\ running
    /\ Pending < MaxPending
    /\ Cardinality(open) + Len(backlog) < MaxClients
    /\ backlog' = Append(backlog, item)
    /\ out' = << >>
    /\ trace' = << >>
    /\ last' = [NoStep EXCEPT !.op = "connect"]
    /\ ServerUnchanged
    /\ UNCHANGED << inq, sendFails >>

\* The client of an open connection sends a frame or closes.
ClientSend(fd, item) ==
    /\ running
    /\ fd \in open
    /\ Pending < MaxPending
    /\ \A i \in 1..Len(inq[fd]) : inq[fd][i].then # "fin"
    /\ inq' = [inq EXCEPT ![fd] = Append(@, item)]
    /\ out' = << >>
    /\ trace' = << >>
    /\ last' = [NoStep EXCEPT !.op = "send", !.sock = fd]
    /\ ServerUnchanged
    /\ UNCHANGED << backlog, sendFails >>

\* talk_to_clients, readySocket == serverSocket: accept and handshake.  The
\* handler returns once recvBuf has.
Handshake ==
    /\ running
    /\ pollCall = ServerSocket
    /\ ~recvBlocks(Head(backlog))
    /\ \E crash \in CrashChoices(recvBuf(Head(backlog))) :
       \E clientSocket \in { tcpAccept }, item \in { Head(backlog) },
          st0 \in { ServerState } :
       \E r \in { recvBuf(item) } :
       \E st \in { IF Overflows(r) /\ crash THEN Crash(st0)
                    ELSE processNewClient(st0, clientSocket, r, crash) } :
           /\ Commit(st)
           /\ last' = [op |-> "accept", sock |-> clientSocket, flag |-> r.flag,
                       len |-> r.len, payload |-> r.buffer]
           /\ inq' = [inq EXCEPT ![clientSocket] =
                         IF clientSocket \in st.open /\ item.then = "fin"
                         THEN << EndOfStream >> ELSE << >>]
    /\ backlog' = Tail(backlog)

AcceptStep == Handshake /\ UNCHANGED history

\* Variant of Packet that reads the PDU that the client sent last.
Packet_NewestFirst ==
    /\ running
    /\ pollCall # 0 - 1
    /\ pollCall # ServerSocket
    /\ LET clientSocket == pollCall
           queue == inq[clientSocket]
           item == queue[Len(queue)]
           r == recvBuf(item)
           st == processClientPacket(ServerState, clientSocket, r)
       IN  /\ Commit(st)
           /\ last' = [op |-> "packet", sock |-> clientSocket, flag |-> r.flag,
                       len |-> r.len, payload |-> r.buffer]
           /\ inq' = [inq EXCEPT ![clientSocket] =
                         IF clientSocket \notin st.open THEN << >>
                         ELSE SubSeq(queue, 1, Len(queue) - 1)]
    /\ UNCHANGED backlog

\* talk_to_clients, any other readySocket: one PDU of that client.
Packet ==
    /\ running
    /\ pollCall # 0 - 1
    /\ pollCall # ServerSocket
    /\ ~recvBlocks(Head(inq[pollCall]))
    /\ \E crash \in CrashChoices(recvBuf(Head(inq[pollCall]))),
          smash \in SenderCrashChoices(recvBuf(Head(inq[pollCall]))) :
       \E clientSocket \in { pollCall }, st0 \in { ServerState } :
       \E item \in { Head(inq[clientSocket]) } :
       \E r \in { recvBuf(item) } :
       \E st \in { IF (Overflows(r) /\ crash) \/ smash = "before"
                    THEN Crash(st0)
                    ELSE IF smash = "after"
                    THEN Crash(processClientPacket(st0, clientSocket, r))
                    ELSE processClientPacket(st0, clientSocket, r) } :
           /\ Commit(st)
           /\ last' = [op |-> "packet", sock |-> clientSocket, flag |-> r.flag,
                       len |-> r.len, payload |-> r.buffer]
           /\ inq' = [inq EXCEPT ![clientSocket] =
                         IF clientSocket \notin st.open THEN << >>
                         ELSE IF item.then = "fin" THEN << EndOfStream >>
                         ELSE Tail(@)]
    /\ UNCHANGED backlog

PacketStep == Packet /\ UNCHANGED history

Next ==
    \/ \E item \in FirstInputs : ClientConnect(item)
    \/ \E fd \in ClientFds, item \in ClientInputs : ClientSend(fd, item)
    \/ AcceptStep
    \/ PacketStep

Spec == Init /\ [][Next]_vars

----------------------------------------------------------------------------
(* The server among clients and connections that fail *)

\* Handles that these clients register: "a", "B", "c".
FaultNames == { <<97>>, <<66>>, <<99>> }

\* A payload of n bytes whose first byte, the sender length, is 0.
PayloadOfLength(n) == [i \in 1..n |-> IF i = 1 THEN 0 ELSE 120]

\* First inputs: a Registration, nothing at all, a connection error, the end
\* of the stream.
FaultFirstInputs ==
    { Frame(CLIENT_INIT_PACKET_TO_SERVER, LenPrefixed(h)) : h \in FaultNames }
    \cup { Stall, RecvError, EndOfStream }

\* Inputs of a registered connection.
FaultInputs ==
    { Frame(BROADCAST_PACKET, << 1, 97, 120, 0 >>),
      Frame(CLIENT_TO_SERVER_LIST_OF_HANDLES, << >>),
      Frame(CLIENT_INIT_PACKET_TO_SERVER, << 1, 98 >>),       \* type not valid here
      Frame(BROADCAST_PACKET, << 5, 97 >>),                   \* sender length > bytes
      EndOfStream,
      RecvError,
      \* 4 payload bytes announced, 2 arrive, then the stream ends or idles
      Bytes("pdu", BROADCAST_PACKET, << 1, 97 >>, SIZE_CHAT_HEADER + 4, "fin"),
      Bytes("pdu", BROADCAST_PACKET, << 1, 97 >>, SIZE_CHAT_HEADER + 4, "idle"),
      \* total length below the header size, then the end, or 3 more bytes
      Bytes("pdu", BROADCAST_PACKET, << >>, SIZE_CHAT_HEADER - 1, "fin"),
      Bytes("pdu", BROADCAST_PACKET, << 1, 97, 120 >>, SIZE_CHAT_HEADER - 1, "fin"),
      \* payload of MAXBUF + 1 bytes
      Frame(BROADCAST_PACKET, PayloadOfLength(MAXBUF + 1)) }

\* The peer of an open connection goes away without the server noticing: from
\* now on send() on the descriptor fails.  One connection at a time is in
\* this condition.
PeerGone(fd) ==
    /\ running
    /\ fd \in open
    /\ sendFails = {}
    /\ sendFails' = sendFails \cup {fd}
    /\ out' = << >>
    /\ trace' = << >>
    /\ last' = [NoStep EXCEPT !.op = "peergone", !.sock = fd]
    /\ ServerUnchanged
    /\ UNCHANGED << backlog, inq >>

NextFault ==
    \/ \E item \in FaultFirstInputs : ClientConnect(item)
    \/ \E fd \in ClientFds, item \in FaultInputs : ClientSend(fd, item)
    \/ \E fd \in ClientFds : PeerGone(fd)
    \/ AcceptStep
    \/ PacketStep

SpecFault == Init /\ [][NextFault]_vars

----------------------------------------------------------------------------
(* Several clients with input waiting at the same time *)

\* Handles that these clients register: "a", "B", "c".
OrderNames == FaultNames

\* Some client has asked for the handle h.
Asked(h) ==
    \/ \E i \in 1..clientTable.count : clientTable.array[i].handle.handle = h
    \/ \E i \in 1..Len(backlog) : backlog[i].payload = LenPrefixed(h)

\* A client connects, at any time, and registers a handle that no other
\* client has asked for; the clients come in the order "B", "a", "c".
OrderConnect(h) ==
    /\ ~Asked(h)
    /\ \A e \in OrderNames : e[1] < h[1] => Asked(e)
    /\ running
    /\ Cardinality(open) + Len(backlog) < MaxClients
    /\ backlog' = Append(backlog,
                         Frame(CLIENT_INIT_PACKET_TO_SERVER, LenPrefixed(h)))
    /\ out' = << >>
    /\ trace' = << >>
    /\ last' = [NoStep EXCEPT !.op = "connect"]
    /\ ServerUnchanged
    /\ UNCHANGED << inq, sendFails >>

\* The number of messages that the clients of the descriptors S have sent.
RECURSIVE TotalSent(_)
TotalSent(S) ==
    IF S = {} THEN 0
    ELSE LET x == CHOOSE y \in S : TRUE
         IN  history.sent[x] + TotalSent(S \ {x})

\* The k-th message of the client registered as h: a Broadcast, or a
\* DirectMessage to every handle; its text is the byte k and a NUL.
OrderMessages(h, k) ==
    { Frame(BROADCAST_PACKET, LenPrefixed(h) \o << k, 0 >>),
      Frame(MESSAGE_PACKET,
            MessagePayload(h, << << 97 >>, << 66 >>, << 99 >> >>, << k, 0 >>)) }

\* The client of a registered connection sends its next message, whether or
\* not the server has read the ones before.
OrderSend(fd, item) ==
    /\ running
    /\ fd \in open
    /\ TotalSent(ClientFds) < MaxSends
    /\ \E i \in 1..clientTable.count :
          /\ clientTable.array[i].socketNumber = fd
          /\ item \in OrderMessages(clientTable.array[i].handle.handle,
                                    history.sent[fd] + 1)
    /\ inq' = [inq EXCEPT ![fd] = Append(@, item)]
    /\ history' = [history EXCEPT !.sent[fd] = @ + 1]
    /\ out' = << >>
    /\ trace' = << >>
    /\ last' = [NoStep EXCEPT !.op = "send", !.sock = fd]
    /\ UNCHANGED << clientTable, pollFileDescriptors, maxFileDescriptor,
                    currentPollSetSize, open, inserted, running, wire,
                    backlog, sendFails >>

\* What a handler's step adds to the observation: the PDUs it wrote, each to
\* its descriptor, and the descriptors that had input and were not served.
Observe ==
    history' =
      [history EXCEPT
         !.delivered =
            [fd \in ClientFds |->
               @[fd] \o [k \in 1..Len(SelectSeq(out', LAMBDA o : o.sock = fd)) |->
                           [from |-> last'.sock,
                            flag |-> SelectSeq(out', LAMBDA o : o.sock = fd)[k].flag,
                            payload |-> SelectSeq(out', LAMBDA o : o.sock = fd)[k].payload]]],
         !.skipped =
            [fd \in ClientFds |->
               IF fd \in ReadySlots /\ fd # pollCall THEN @[fd] + 1 ELSE 0]]

OrderAcceptStep == Handshake /\ Observe

OrderPacketStep == Packet /\ Observe

NextOrder ==
    \/ \E h \in OrderNames : OrderConnect(h)
    \/ \E fd \in ClientFds, h \in OrderNames, k \in 1..MaxSends :
          \E item \in OrderMessages(h, k) : OrderSend(fd, item)
    \/ OrderAcceptStep
    \/ OrderPacketStep

SpecOrder == Init /\ [][NextOrder]_vars

----------------------------------------------------------------------------
(* List requests among the traffic of other clients *)

\* The k-th message of the client registered as h: a ListRequest, or a
\* Broadcast whose text is the byte k and a NUL.
ListMessages(h, k) ==
    { Frame(CLIENT_TO_SERVER_LIST_OF_HANDLES, << >>),
      Frame(BROADCAST_PACKET, LenPrefixed(h) \o << k, 0 >>) }

\* The client of a registered connection sends its next message, whether or
\* not the server has read the ones before.
ListSend(fd, item) ==
    /\ running
    /\ fd \in open
    /\ TotalSent(ClientFds) < MaxSends
    /\ \E i \in 1..clientTable.count :
          /\ clientTable.array[i].socketNumber = fd
          /\ item \in ListMessages(clientTable.array[i].handle.handle,
                                   history.sent[fd] + 1)
    /\ inq' = [inq EXCEPT ![fd] = Append(@, item)]
    /\ history' = [history EXCEPT !.sent[fd] = @ + 1]
    /\ out' = << >>
    /\ trace' = << >>
    /\ last' = [NoStep EXCEPT !.op = "send", !.sock = fd]
    /\ UNCHANGED << clientTable, pollFileDescriptors, maxFileDescriptor,
                    currentPollSetSize, open, inserted, running, wire,
                    backlog, sendFails >>

NextList ==
    \/ \E h \in OrderNames : OrderConnect(h)
    \/ \E fd \in ClientFds, h \in OrderNames, k \in 1..MaxSends :
          \E item \in ListMessages(h, k) : ListSend(fd, item)
    \/ OrderAcceptStep
    \/ OrderPacketStep

SpecList == Init /\ [][NextList]_vars

----------------------------------------------------------------------------
(* Registered clients that send PDUs of every kind of type *)

\* Types that dispatchPacket has no case for: below and above the known
\* ones, Registration, the types that only the server sends, and the unused
\* type 6.
OtherTypes ==
    { 0, CLIENT_INIT_PACKET_TO_SERVER, ERROR_ON_INIT_PACKET, 6, EXIT_ACK, 255 }

\* What a registered client sends: a PDU of one of these types, without
\* payload or with the payload of a Broadcast, or a ListRequest.
TypeInputs ==
    { Frame(t, p) : t \in OtherTypes, p \in { << >>, << 1, 97, 120, 0 >> } }
    \cup { Frame(CLIENT_TO_SERVER_LIST_OF_HANDLES, << >>) }

NextTypes ==
    \/ \E h \in FaultNames :
          ClientConnect(Frame(CLIENT_INIT_PACKET_TO_SERVER, LenPrefixed(h)))
    \/ \E fd \in ClientFds, item \in TypeInputs : ClientSend(fd, item)
    \/ AcceptStep
    \/ PacketStep

SpecTypes == Init /\ [][NextTypes]_vars

----------------------------------------------------------------------------
(* A connection that is accepted and does not send its Registration *)

\* What such a connection sends first: nothing, or the header of a
\* Registration and one of the two payload bytes it announces.
SilentInputs ==
    { Stall,
      Bytes("pdu", CLIENT_INIT_PACKET_TO_SERVER, << 1 >>, SIZE_CHAT_HEADER + 2,
            "idle") }

\* What the registered clients send.
BusyInputs ==
    { Frame(BROADCAST_PACKET, << 1, 97, 120, 0 >>),
      Frame(CLIENT_TO_SERVER_LIST_OF_HANDLES, << >>) }

Silent(item) == item \in SilentInputs

\* A connection arrives that will stay silent, whatever else is waiting;
\* one at a time.
SilentConnect(item) ==
    /\ running
    /\ \A i \in 1..Len(backlog) : ~Silent(backlog[i])
    /\ Cardinality(open) + Len(backlog) < MaxClients
    /\ backlog' = Append(backlog, item)
    /\ out' = << >>
    /\ trace' = << >>
    /\ last' = [NoStep EXCEPT !.op = "connect"]
    /\ ServerUnchanged
    /\ UNCHANGED << inq, sendFails >>

NextSilent ==
    \/ \E h \in FaultNames :
          ClientConnect(Frame(CLIENT_INIT_PACKET_TO_SERVER, LenPrefixed(h)))
    \/ \E item \in SilentInputs : SilentConnect(item)
    \/ \E fd \in ClientFds, item \in BusyInputs : ClientSend(fd, item)
    \/ AcceptStep
    \/ PacketStep

\* talk_to_clients loops for ever: whenever pollCall can return and the
\* handler's recvBuf can return, the step is taken.
SpecSilent ==
    Init /\ [][NextSilent]_vars /\ WF_vars(AcceptStep) /\ WF_vars(PacketStep)

----------------------------------------------------------------------------
(* Clients that leave and handles that are registered again *)

\* Handles that these clients register: "a", "A", "B".
ReuseNames == { <<97>>, <<65>>, <<66>> }

\* The destination lists of their messages.
ReuseDests == { << <<97>> >>, << <<65>>, <<66>> >> }

\* The handles of the live entries of the table.
Holders(t) == { t.array[i].handle.handle : i \in 1..t.count }

\* What a registered client does: it sends a DirectMessage to some
\* destinations, it sends Exit, or it closes its connection.
ReuseInputs ==
    { Frame(MESSAGE_PACKET, MessagePayload(<<97>>, d, <<120, 0>>)) : d \in ReuseDests }
    \cup { Frame(CLIENT_TO_SERVER_EXIT, << >>), EndOfStream }

\* The handles whose entry a handler took out of the directory are
\* remembered.
Track ==
    history' = [history EXCEPT
                  !.released = @ \cup (Holders(clientTable) \ Holders(clientTable'))]

ReuseAcceptStep == Handshake /\ Track

ReusePacketStep == Packet /\ Track

NextReuse ==
    \/ \E h \in ReuseNames :
          ClientConnect(Frame(CLIENT_INIT_PACKET_TO_SERVER, LenPrefixed(h)))
    \/ \E fd \in ClientFds, item \in ReuseInputs : ClientSend(fd, item)
    \/ ReuseAcceptStep
    \/ ReusePacketStep

SpecReuse == Init /\ [][NextReuse]_vars

----------------------------------------------------------------------------
(* Registered clients that choose every byte of their messages *)

\* DirectMessage payloads whose destination list ends before the announced
\* number of destinations: after the registered "B" or the unknown "z" the
\* next length byte is missing, or it announces more bytes than follow; the
\* last one has no destination at all.
TruncatedMessages ==
    { << 1, 97, 2, 1, 66 >>,
      << 1, 97, 2, 1, 66, 9, 99 >>,
      << 1, 97, 2, 1, 122 >>,
      << 1, 97, 1 >> }

\* Payloads that are well formed and name a sender of the client's choice:
\* "a" or "z" in a Broadcast and in a DirectMessage to "B" and "c".
SenderChoices == { << 97 >>, << 122 >> }

ChosenSenderBroadcast(h) == LenPrefixed(h) \o << 120, 0 >>

ChosenSenderMessage(h) == MessagePayload(h, << << 66 >>, << 99 >> >>, << 120, 0 >>)

\* A Broadcast whose sender has one byte more than a handle can have.
LongSenderBroadcast ==
    ChosenSenderBroadcast([i \in 1..(MAXIMUM_CHARACTERS + 1) |-> 122])

DirectInputs ==
    { Frame(MESSAGE_PACKET, p) : p \in TruncatedMessages }
    \cup { Frame(BROADCAST_PACKET, ChosenSenderBroadcast(h)) : h \in SenderChoices }
    \cup { Frame(MESSAGE_PACKET, ChosenSenderMessage(h)) : h \in SenderChoices }
    \cup { Frame(BROADCAST_PACKET, LongSenderBroadcast) }

NextDirect ==
    \/ \E h \in FaultNames :
          ClientConnect(Frame(CLIENT_INIT_PACKET_TO_SERVER, LenPrefixed(h)))
    \/ \E fd \in ClientFds, item \in DirectInputs : ClientSend(fd, item)
    \/ AcceptStep
    \/ PacketStep

SpecDirect == Init /\ [][NextDirect]_vars

----------------------------------------------------------------------------
(* Many registrations: the table and the poll set grow *)

\* One-byte handles "a", "b", ...
GrowNames == { << 96 + k >> : k \in 1..MaxGrow }

Registered(h) == \E i \in 1..clientTable.count : clientTable.array[i].handle.handle = h

\* The next client registers the first or the last of the handles not yet
\* taken, so that entries are inserted at the front and in the middle of the
\* table as well as behind its last entry.
GrowCandidates ==
    LET Free == { h \in GrowNames : ~Registered(h) }
    IN  { h \in Free : \/ \A f \in Free : h[1] <= f[1]
                        \/ \A e \in Free : h[1] >= e[1] }

\* processNewClient for a client that registers h; no connection is ever
\* closed here, so tcpAccept returns the descriptor after the last one.
GrowRegister(h) ==
    /\ running
    /\ Cardinality(open) < MaxGrow
    /\ h \in GrowCandidates
    /\ LET clientSocket == ServerSocket + 1 + Cardinality(open)
           r == recvBuf(Frame(CLIENT_INIT_PACKET_TO_SERVER, LenPrefixed(h)))
           st == processNewClient(ServerState, clientSocket, r, FALSE)
       IN  /\ Commit(st)
           /\ last' = [op |-> "accept", sock |-> clientSocket, flag |-> r.flag,
                       len |-> r.len, payload |-> r.buffer]
    /\ UNCHANGED << backlog, inq, history >>

NextGrow == \E h \in GrowNames : GrowRegister(h)

SpecGrow == Init /\ [][NextGrow]_vars

----------------------------------------------------------------------------
(* Many registrations, and handshakes that fail among them *)

\* First inputs that processNewClient refuses: the stream ends, or the
\* Registration names a handle of length 0.
RefusedInputs ==
    { EndOfStream, Frame(CLIENT_INIT_PACKET_TO_SERVER, << 0 >>) }

\* removeFromPollSet stores to pollFileDescriptors[socketNumber] without a
\* look at currentPollSetSize.
PollIndexOverflows(socketNumber) == socketNumber >= currentPollSetSize

\* processNewClient for a client whose handshake fails, on the descriptor
\* after the last one.  Where cleanupClient stores behind the poll array,
\* the process is ended or goes on.
GrowRefuse(item) ==
    /\ running
    /\ Cardinality(open) < MaxGrow
    /\ \E clientSocket \in { ServerSocket + 1 + Cardinality(open) },
          r \in { recvBuf(item) },
          crash \in IF PollIndexOverflows(ServerSocket + 1 + Cardinality(open))
                    THEN BOOLEAN ELSE { FALSE } :
       \E st \in { processNewClient(ServerState, clientSocket, r, FALSE) } :
           /\ Commit(IF crash THEN Crash(st) ELSE st)
           /\ last' = [op |-> "accept", sock |-> clientSocket, flag |-> r.flag,
                       len |-> r.len, payload |-> r.buffer]
    /\ UNCHANGED << backlog, inq, history >>

NextGrowFail ==
    \/ \E h \in GrowNames : GrowRegister(h)
    \/ \E item \in RefusedInputs : GrowRefuse(item)

SpecGrowFail == Init /\ [][NextGrowFail]_vars

----------------------------------------------------------------------------
(* The codec on its own: sendBuf writes to a stream that recvBuf reads *)

CodecSocket == ServerSocket + 1

\* Types and payloads of the frames written: the smallest and the largest
\* type, payloads that are empty, that look like headers, that make the
\* total length 256, and the longest payload whose total length fits 16 bits.
CodecFrames ==
    { Pdu(CodecSocket, t, p) :
        t \in { 0, 1, 255 },
        p \in { << >>, << 0 >>, << 0, 3, 1 >>,
                PayloadOfLength(256 - SIZE_CHAT_HEADER) } }
    \cup { Pdu(CodecSocket, 255, PayloadOfLength(65535 - SIZE_CHAT_HEADER)) }

CodecUnchanged ==
    UNCHANGED << clientTable, pollFileDescriptors, maxFileDescriptor,
                 currentPollSetSize, open, backlog, inq, trace, inserted,
                 running, sendFails, history >>

\* sendBuf(socket, payload, length, type); out keeps the frames in flight.
CodecSend(f) ==
    /\ Len(out) < MaxInFlight
    /\ wire' = wire \o PDU_Buffer(f.payload, Len(f.payload), f.flag)
    /\ out' = Append(out, f)
    /\ last' = [op |-> "sendBuf", sock |-> f.sock, flag |-> f.flag,
                len |-> Len(f.payload) + SIZE_CHAT_HEADER, payload |-> << >>]
    /\ CodecUnchanged

\* One call of recvBuf on the stream, once its recv() calls return.
CodecRecv ==
    /\ ~recvBlocks(NextOnStream(wire))
    /\ LET r == recvBuf(NextOnStream(wire))
       IN  /\ last' = [op |-> "recvBuf", sock |-> CodecSocket, flag |-> r.flag,
                       len |-> r.len, payload |-> r.buffer]
           /\ wire' = SubSeq(wire, SIZE_CHAT_HEADER + r.written + 1, Len(wire))
    /\ out' = Tail(out)
    /\ CodecUnchanged

NextCodec ==
    \/ \E f \in CodecFrames : CodecSend(f)
    \/ CodecRecv

SpecCodec == Init /\ [][NextCodec]_vars

----------------------------------------------------------------------------
(* Registrations at the limits of the handle length *)

\* A handle of n bytes "c".
HandleOfLength(n) == [i \in 1..n |-> 99]

\* First inputs: Registrations whose length byte is 0, 1, 100, 101 and 255,
\* with all the bytes the length byte announces or with fewer.
LengthInputs ==
    { Frame(CLIENT_INIT_PACKET_TO_SERVER, LenPrefixed(HandleOfLength(n))) :
        n \in {0, 1, MAXIMUM_CHARACTERS, MAXIMUM_CHARACTERS + 1, 255} }
    \cup { Frame(CLIENT_INIT_PACKET_TO_SERVER, << 3, 99 >>),
           Frame(CLIENT_INIT_PACKET_TO_SERVER,
                 << MAXIMUM_CHARACTERS >> \o HandleOfLength(MAXIMUM_CHARACTERS - 1)),
           Frame(CLIENT_INIT_PACKET_TO_SERVER, << 1, 99, 100 >>) }

\* What the registered clients of this specification send.
LengthClientInputs ==
    { Frame(CLIENT_TO_SERVER_LIST_OF_HANDLES, << >>),
      Frame(CLIENT_TO_SERVER_EXIT, << >>), EndOfStream }

NextLen ==
    \/ \E item \in LengthInputs : ClientConnect(item)
    \/ \E fd \in ClientFds, item \in LengthClientInputs : ClientSend(fd, item)
    \/ AcceptStep
    \/ PacketStep

SpecLen == Init /\ [][NextLen]_vars

----------------------------------------------------------------------------
(* The client's %M and %B commands: cclient.cpp *)

MAX_SEGMENT == MAX_TEXT_PER_PACKET - 1

\* The while loop that segments message from pos on: the packets sent and
\* whether the process is still alive.  packetPayload has MAXBUF bytes; when
\* header, segment and terminator need more, the bytes are written behind
\* the array and what follows is not defined: the process is ended there
\* (crash), or it goes on as if the array had been large enough.
RECURSIVE segmentLoop(_, _, _, _, _, _)
segmentLoop(socketNum, headerPayload, message, pos, flag, crash) ==
    LET messageLen == Len(message)
        headerSize == Len(headerPayload)
        segmentLength == IF messageLen - pos > MAX_SEGMENT THEN MAX_SEGMENT
                         ELSE messageLen - pos
        packetPayload == headerPayload
                            \o SubSeq(message, pos + 1, pos + segmentLength)
                            \o << 0 >>
        totalPacketLength == headerSize + segmentLength + 1
    IN  IF pos >= messageLen THEN [out |-> << >>, alive |-> TRUE]
        ELSE IF totalPacketLength > MAXBUF /\ crash
        THEN [out |-> << >>, alive |-> FALSE]
        ELSE LET rest == segmentLoop(socketNum, headerPayload, message,
                                     pos + segmentLength, flag, crash)
             IN  [out |-> << Pdu(socketNum, flag,
                                 SubSeq(packetPayload, 1, totalPacketLength)) >>
                             \o rest.out,
                  alive |-> rest.alive]

\* What both commands do once headerPayload is built.
sendMessage(socketNum, headerPayload, message, flag, crash) ==
    IF Len(message) = 0
    THEN [out |-> << Pdu(socketNum, flag, headerPayload \o << 0 >>) >>,
          alive |-> TRUE]
    ELSE segmentLoop(socketNum, headerPayload, message, 0, flag, crash)

\* handleMessageCommand after the command line was split into numHandles,
\* the destination handles (each cut to MAX_NAME_LEN - 1 bytes) and message.
handleMessageCommand(socketNum, g_clientHandle, numHandles, desHandles, message, crash) ==
    IF numHandles < 1 \/ numHandles > 9
    THEN [out |-> << >>, alive |-> TRUE]
    ELSE LET headerPayload ==
                 << Len(g_clientHandle) % 256 >> \o g_clientHandle
                    \o << numHandles >>
                    \o ConcatAll([i \in 1..numHandles |->
                                    << Len(desHandles[i]) >> \o desHandles[i]])
         IN  sendMessage(socketNum, headerPayload, message, MESSAGE_PACKET,
                         crash)

\* handleBroadcastCommand after the command line was split into the command
\* and message.
handleBroadcastCommand(socketNum, g_clientHandle, message, crash) ==
    LET headerPayload == << Len(g_clientHandle) % 256 >> \o g_clientHandle
    IN  sendMessage(socketNum, headerPayload, message, BROADCAST_PACKET, crash)

\* A message text of n bytes, none of them NUL, space or newline, in which
\* no two ranges of MAX_SEGMENT bytes that start at different multiples of
\* MAX_SEGMENT are the same.
TextOfLength(n) == [i \in 1..n |-> 33 + (i % 94)]

\* Lengths of the message texts typed: none, less than a segment, around
\* one, two, three and five segments.
TextLengths ==
    { 0, 1, 2, 100, MAX_SEGMENT - 1, MAX_SEGMENT, MAX_TEXT_PER_PACKET,
      MAX_TEXT_PER_PACKET + 1, 2 * MAX_SEGMENT - 1, 2 * MAX_SEGMENT,
      2 * MAX_SEGMENT + 1, 2 * MAX_TEXT_PER_PACKET, 3 * MAX_SEGMENT,
      3 * MAX_SEGMENT + 1, 5 * MAX_SEGMENT, 5 * MAX_SEGMENT + 1 }

\* The handle the client was started with: "a", or one of the greatest
\* length that main accepts.
ClientHandles == { << 97 >>, HandleOfLength(MAX_NAME_LEN) }

\* Destination lists typed after %M: one or two short handles, eight and
\* nine handles of the greatest length that desHandles keeps.
ClientDestLists ==
    { << << 98 >> >>, << << 65 >>, << 98, 99 >> >>,
      [i \in 1..8 |-> HandleOfLength(MAX_NAME_LEN - 1)],
      [i \in 1..9 |-> HandleOfLength(MAX_NAME_LEN - 1)] }

\* Length of the line "%M n d1 .. dn message" or "%B message"; fgets and
\* strncpy keep at most MAXBUF - 1 characters of a line.
MessageLine(dests, message) ==
    5 + SumLen(dests, DOMAIN dests) + Len(dests) + Len(message)
BroadcastLine(message) == 3 + Len(message)

\* Whether the command writes behind packetPayload.
CommandOverflows(headerSize, message) ==
    headerSize + Min(Len(message), MAX_SEGMENT) + 1 > MAXBUF

ClientUnchanged ==
    UNCHANGED << clientTable, pollFileDescriptors, maxFileDescriptor,
                 currentPollSetSize, open, backlog, inq, inserted, sendFails,
                 wire, history >>

\* The user types %M.
MessageCommand(h, dests, message) ==
    /\ running
    /\ MessageLine(dests, message) <= MAXBUF - 1
    /\ \E crash \in IF CommandOverflows(
                          Len(h) + 2 + SumLen(dests, DOMAIN dests) + Len(dests),
                          message)
                     THEN BOOLEAN ELSE {FALSE} :
          LET r == handleMessageCommand(CodecSocket, h, Len(dests), dests,
                                        message, crash)
          IN  /\ out' = r.out
              /\ running' = r.alive
              /\ trace' = IF r.alive THEN << >> ELSE << "crash" >>
    /\ last' = [op |-> "%M", sock |-> CodecSocket, flag |-> MESSAGE_PACKET,
                len |-> Len(message), payload |-> message,
                sender |-> h, dests |-> dests]
    /\ ClientUnchanged

\* The user types %B.
BroadcastCommand(h, message) ==
    /\ running
    /\ BroadcastLine(message) <= MAXBUF - 1
    /\ \E crash \in IF CommandOverflows(Len(h) + 1, message)
                     THEN BOOLEAN ELSE {FALSE} :
          LET r == handleBroadcastCommand(CodecSocket, h, message, crash)
          IN  /\ out' = r.out
              /\ running' = r.alive
              /\ trace' = IF r.alive THEN << >> ELSE << "crash" >>
    /\ last' = [op |-> "%B", sock |-> CodecSocket, flag |-> BROADCAST_PACKET,
                len |-> Len(message), payload |-> message,
                sender |-> h, dests |-> << >>]
    /\ ClientUnchanged

NextClient ==
    \/ \E h \in ClientHandles, d \in ClientDestLists, n \in TextLengths :
          MessageCommand(h, d, TextOfLength(n))
    \/ \E h \in ClientHandles, n \in TextLengths :
          BroadcastCommand(h, TextOfLength(n))

SpecClient == Init /\ [][NextClient]_vars

----------------------------------------------------------------------------
(* The client's %L command: cclient.cpp *)

\* readNBytes(socketNum, buffer, n) with pos bytes of the stream read so
\* far: recv() with MSG_WAITALL returns once n more bytes have arrived.
readNBytes(stream, pos, n) == pos + n <= Len(stream)

\* What handleListCommand leaves behind: the number of bytes it has read
\* from the stream, whether it is still waiting in recv(), the handles it
\* has printed, and whether it has written behind handleBuffer.
ListResult(pos, blocked, printed, smashed) ==
    [pos |-> pos, blocked |-> blocked, printed |-> printed,
     smashed |-> smashed]

\* The end-of-list marker: its header is read and logged.
handleListEnd(stream, pos, printed, smashed) ==
    IF ~readNBytes(stream, pos, SIZE_CHAT_HEADER)
    THEN ListResult(pos, TRUE, printed, smashed)
    ELSE ListResult(pos + SIZE_CHAT_HEADER, FALSE, printed, smashed)

\* The for loop over the numHandles handle PDUs, from round i on.
RECURSIVE handleListLoop(_, _, _, _, _, _)
handleListLoop(stream, pos, i, numHandles, printed, smashed) ==
    IF i >= numHandles THEN handleListEnd(stream, pos, printed, smashed)
    ELSE IF ~readNBytes(stream, pos, SIZE_CHAT_HEADER)
    THEN ListResult(pos, TRUE, printed, smashed)
    ELSE LET pduLen == ntohs(stream[pos + 1], stream[pos + 2])
             receivedFlag == stream[pos + 3]
             payloadLen == pduLen - SIZE_CHAT_HEADER
             body == pos + SIZE_CHAT_HEADER
         IN  IF receivedFlag # LIST_RESPONSE_HANDLE \/ payloadLen < 1
             THEN handleListLoop(stream, body, i + 1, numHandles, printed,
                                 smashed)
             ELSE IF ~readNBytes(stream, body, payloadLen)
             THEN ListResult(body, TRUE, printed,
                             smashed \/ Len(stream) - body > MAX_NAME_LEN + 1)
             ELSE LET handleLen == stream[body + 1]
                      over == smashed \/ payloadLen > MAX_NAME_LEN + 1
                  IN  IF payloadLen < 1 + handleLen
                      THEN handleListLoop(stream, body + payloadLen, i + 1,
                                          numHandles, printed, over)
                      ELSE handleListLoop(
                               stream, body + payloadLen, i + 1, numHandles,
                               Append(printed,
                                      SubSeq(stream, body + 2,
                                             body + 1 + handleLen)),
                               over)

\* handleListCommand, once the ListRequest is sent, on the bytes that arrive
\* on the socket.
handleListCommand(stream) ==
    IF ~readNBytes(stream, 0, SIZE_CHAT_HEADER)
    THEN ListResult(0, TRUE, << >>, FALSE)
    ELSE LET pduLen == ntohs(stream[1], stream[2])
             receivedFlag == stream[3]
             payloadLen == pduLen - SIZE_CHAT_HEADER
         IN  IF receivedFlag # LIST_RESPONSE_NUM \/ payloadLen # 4
             THEN ListResult(SIZE_CHAT_HEADER, FALSE, << >>, FALSE)
             ELSE IF ~readNBytes(stream, SIZE_CHAT_HEADER, 4)
             THEN ListResult(SIZE_CHAT_HEADER, TRUE, << >>, FALSE)
             ELSE handleListLoop(
                      stream, SIZE_CHAT_HEADER + 4, 0,
                      ntohl(SubSeq(stream, SIZE_CHAT_HEADER + 1,
                                   SIZE_CHAT_HEADER + 4)),
                      << >>, FALSE)

\* The handles of the clients of this scenario: one byte, and the longest.
ListCmdNames == { << 97 >>, << 66 >>, HandleOfLength(MAX_NAME_LEN) }

\* The socket of the client that types %L: the first one accepted.
ListCmdSocket == ServerSocket + 1

\* A client registers; no connection is closed here, so tcpAccept returns
\* the descriptor after the last one.
ListCmdRegister(h) ==
    /\ running
    /\ ~Registered(h)
    /\ LET clientSocket == ServerSocket + 1 + Cardinality(open)
           r == recvBuf(Frame(CLIENT_INIT_PACKET_TO_SERVER, LenPrefixed(h)))
           st == processNewClient(ServerState, clientSocket, r, FALSE)
       IN  /\ Commit(st)
           /\ last' = [op |-> "accept", sock |-> clientSocket, flag |-> r.flag,
                       len |-> r.len, payload |-> r.buffer]
    /\ UNCHANGED << backlog, inq, history >>

\* What the server has written to the client's connection and the client
\* has not read when the user types %L: nothing, or PDUs that
\* forwardBroadcast, forwardDirectMessage and sendErrorPDU write.
QueuedAhead ==
    { << >>,
      << Pdu(ListCmdSocket, BROADCAST_PACKET, << 1, 66, 104, 105, 0 >>) >>,
      << Pdu(ListCmdSocket, MESSAGE_PACKET, << 1, 66, 1, 1, 97, 104, 0 >>) >>,
      << Pdu(ListCmdSocket, ERROR_INVALID_HANDLE, << 1, 122 >>) >>,
      << Pdu(ListCmdSocket, BROADCAST_PACKET, << 1, 66, 0 >>),
         Pdu(ListCmdSocket, ERROR_INVALID_HANDLE, << 1, 122 >>) >> }

\* The bytes of PDUs written one after the other by sendBuf.
StreamOf(pdus) ==
    ConcatAll([k \in 1..Len(pdus) |->
                  PDU_Buffer(pdus[k].payload, Len(pdus[k].payload),
                             pdus[k].flag)])

\* The user types %L: the ListRequest is sent, the server answers it with
\* processListRequest, and handleListCommand reads from the connection.
ListCommand(ahead) ==
    /\ running
    /\ ListCmdSocket \in open
    /\ LET answer == processListRequest(ServerState, ListCmdSocket).out
           stream == StreamOf(ahead \o answer)
           r == handleListCommand(stream)
       IN  /\ out' = ahead \o answer
           /\ wire' = SubSeq(stream, r.pos + 1, Len(stream))
           /\ trace' = << >>
           /\ last' = [op |-> "%L", sock |-> ListCmdSocket,
                       flag |-> CLIENT_TO_SERVER_LIST_OF_HANDLES,
                       len |-> r.pos, payload |-> stream,
                       ahead |-> Len(StreamOf(ahead)),
                       blocked |-> r.blocked, printed |-> r.printed]
    /\ UNCHANGED << clientTable, pollFileDescriptors, maxFileDescriptor,
                    currentPollSetSize, open, backlog, inq, inserted, running,
                    sendFails, history >>

NextListCmd ==
    \/ \E h \in ListCmdNames : ListCmdRegister(h)
    \/ \E ahead \in QueuedAhead : ListCommand(ahead)

SpecListCmd == Init /\ [][NextListCmd]_vars

----------------------------------------------------------------------------
(* The handle table on its own: any sequence of calls of its public        *)
(* operations, with any handle and any socket number.                      *)

DirUnchanged ==
    UNCHANGED << pollFileDescriptors, maxFileDescriptor, currentPollSetSize,
                 open, backlog, inq, running, sendFails, wire, history >>

\* clientTable.addElement(handle, s) for a freshly accepted socket s, which
\* no live entry refers to; last.len keeps the return value.
DirAdd(h, s) ==
    /\ \A i \in 1..clientTable.count : clientTable.array[i].socketNumber # s
    /\ LET a == addElement(clientTable, Handling(h), s)
       IN  /\ clientTable' = a.table
           /\ last' = [op |-> "add", sock |-> s, flag |-> 0, len |-> a.ret,
                       payload |-> h]
           /\ inserted' = IF a.ret = 1 THEN inserted \cup {h} ELSE inserted
    /\ out' = << >>
    /\ trace' = << >>
    /\ DirUnchanged

\* clientTable.removeElement(h)
DirRemove(h) ==
    /\ clientTable' = removeElement(clientTable, h)
    /\ last' = [op |-> "removeByHandle", sock |-> 0, flag |-> 0, len |-> 0,
                payload |-> h]
    /\ UNCHANGED inserted
    /\ out' = << >>
    /\ trace' = << >>
    /\ DirUnchanged

\* clientTable.removeElementBySocket(s)
DirRemoveBySocket(s) ==
    /\ clientTable' = removeElementBySocket(clientTable, s)
    /\ last' = [op |-> "removeBySocket", sock |-> s, flag |-> 0, len |-> 0,
                payload |-> << >>]
    /\ UNCHANGED inserted
    /\ out' = << >>
    /\ trace' = << >>
    /\ DirUnchanged

NextDir ==
    \/ \E h \in DirNames, s \in ClientFds : DirAdd(h, s)
    \/ \E h \in DirNames : DirRemove(h)
    \/ \E s \in ClientFds : DirRemoveBySocket(s)

SpecDir == Init /\ [][NextDir]_vars

----------------------------------------------------------------------------
(* The handle table on its own, with more entries than its first capacity: *)
(* each handle comes with its own socket, the table fills, and when it    *)
(* holds all the handles but one at most, entries are removed and added    *)
(* again.                                                                  *)

\* The socket of the client that registers the one-byte handle h.
GrowSocket(h) == ServerSocket + h[1] - 96

\* clientTable.addElement(handle, s)
DirGrowAdd(h) ==
    /\ h \in GrowCandidates
    /\ clientTable' = addElement(clientTable, Handling(h), GrowSocket(h)).table
    /\ last' = [NoStep EXCEPT !.op = "add"]
    /\ out' = << >>
    /\ trace' = << >>
    /\ UNCHANGED inserted
    /\ DirUnchanged

\* clientTable.removeElement(h)
DirGrowRemove(h) ==
    /\ clientTable.count >= MaxGrow - 1
    /\ clientTable' = removeElement(clientTable, h)
    /\ last' = [NoStep EXCEPT !.op = "removeByHandle"]
    /\ out' = << >>
    /\ trace' = << >>
    /\ UNCHANGED inserted
    /\ DirUnchanged

\* clientTable.removeElementBySocket(s)
DirGrowRemoveBySocket(s) ==
    /\ clientTable.count >= MaxGrow - 1
    /\ clientTable' = removeElementBySocket(clientTable, s)
    /\ last' = [NoStep EXCEPT !.op = "removeBySocket"]
    /\ out' = << >>
    /\ trace' = << >>
    /\ UNCHANGED inserted
    /\ DirUnchanged

NextDirGrow ==
    \/ \E h \in GrowNames : DirGrowAdd(h)
    \/ \E h \in GrowNames : DirGrowRemove(h)
    \/ \E h \in GrowNames : DirGrowRemoveBySocket(GrowSocket(h))

SpecDirGrow == Init /\ [][NextDirGrow]_vars

----------------------------------------------------------------------------
(* Vocabulary of the properties *)

\* The live entries of a table, in enumeration order, as (handle bytes, socket).
Entries(t) ==
    [i \in 1..t.count |-> [handle |-> t.array[i].handle.handle,
                           sock |-> t.array[i].socketNumber]]

\* Some live entry carries exactly these bytes.
HasHandle(t, h) == \E i \in 1..t.count : t.array[i].handle.handle = h

\* Some live entry refers to this socket.
HasSocket(t, s) == \E i \in 1..t.count : t.array[i].socketNumber = s

\* Some live entry maps exactly these bytes to this socket.
Maps(t, h, s) ==
    \E i \in 1..t.count : /\ t.array[i].handle.handle = h
                          /\ t.array[i].socketNumber = s

WatchedIn(pfds, fd) ==
    fd \in DOMAIN pfds /\ pfds[fd].fd = fd /\ pfds[fd].events = POLLIN

Has(seq, x) == \E i \in 1..Len(seq) : seq[i] = x

WellFormedBroadcast(payload) ==
    Len(payload) >= 1 /\ Len(payload) >= 1 + payload[1]

\* The byte-wise ordering of handles: the first differing byte decides, and a
\* proper prefix sorts first.
ByteLess(x, y) ==
    \/ /\ Len(x) < Len(y)
       /\ \A i \in 1..Len(x) : x[i] = y[i]
    \/ \E k \in 1..Min(Len(x), Len(y)) :
          /\ x[k] < y[k]
          /\ \A i \in 1..(k - 1) : x[i] = y[i]

----------------------------------------------------------------------------
(* Registration handshake *)

\* C1: a Registration PDU [len][handle] with a handle that is not in the
\* directory is answered by inserting (handle, connection), then sending
\* exactly one RegistrationConfirmed PDU with empty payload, then watching
\* the connection; no RegistrationError is sent.
C1_RegistrationSucceeds ==
    [][\A h \in Names :
          ( /\ last'.op = "accept"
            /\ last'.flag = CLIENT_INIT_PACKET_TO_SERVER
            /\ last'.payload = LenPrefixed(h)
            /\ ~HasHandle(clientTable, h) )
          => /\ trace' = << "insert", "send", "watch" >>
             /\ out' = << Pdu(last'.sock, CONFIRM_GOOD_HANDLE, << >>) >>
             /\ Maps(clientTable', h, last'.sock)
             /\ WatchedIn(pollFileDescriptors', last'.sock)
             /\ last'.sock \in open'
      ]_vars

\* C2: registering a handle whose bytes are already in the directory fails
\* with a RegistrationError to the second connection, which is closed; the
\* table (every slot, the count and the capacity) is exactly as before.
C2_DuplicateLeavesDirectory ==
    [][\A h \in Names :
          ( /\ last'.op = "accept"
            /\ last'.flag = CLIENT_INIT_PACKET_TO_SERVER
            /\ last'.payload = LenPrefixed(h)
            /\ HasHandle(clientTable, h) )
          => /\ clientTable' = clientTable
             /\ Entries(clientTable') = Entries(clientTable)
             /\ out' = << Pdu(last'.sock, ERROR_ON_INIT_PACKET, << >>) >>
             /\ ~Has(trace', "insert")
             /\ last'.sock \notin open'
      ]_vars

\* A second connection was just refused a handle that the first one holds.
C2_Witness ==
    /\ last.op = "accept"
    /\ out = << Pdu(last.sock, ERROR_ON_INIT_PACKET, << >>) >>
    /\ \E h \in Names, s \in ClientFds :
          /\ last.payload = LenPrefixed(h)
          /\ Maps(clientTable, h, s)
          /\ s # last.sock
          /\ s \in open

\* The first PDU of a connection does not pass the handshake: the stream
\* ended, the type is not Registration, the length byte is 0, above 100 or
\* larger than the bytes present, or the handle's bytes are in the directory.
HandshakeFails(t, r) ==
    \/ r.len = 0 - 1
    \/ r.flag # CLIENT_INIT_PACKET_TO_SERVER
    \/ Len(r.payload) = 0
    \/ r.payload[1] = 0
    \/ r.payload[1] > MAXIMUM_CHARACTERS
    \/ r.payload[1] > Len(r.payload) - 1
    \/ HasHandle(t, SubSeq(r.payload, 2, 1 + r.payload[1]))

C11_HandshakeFailureReported ==
    [][ ( /\ last'.op = "accept"
          /\ last'.len # 0 - 1
          /\ running'
          /\ HandshakeFails(clientTable, last') )
        => /\ out' = << Pdu(last'.sock, ERROR_ON_INIT_PACKET, << >>) >>
           /\ trace' = << "send", "remove", "unwatch", "close" >>
      ]_vars

\* The payload of a Registration passes the length validation.
ValidHandleLength(p) ==
    /\ Len(p) >= 1
    /\ p[1] >= 1
    /\ p[1] <= MAXIMUM_CHARACTERS
    /\ Len(p) >= 1 + p[1]

\* C12: a Registration is accepted exactly when its length byte is in 1..100
\* and the payload holds at least 1+length bytes: such a handle, when its
\* bytes are not registered yet, is inserted with all its bytes (lengths 1
\* and 100 included) and confirmed; any other Registration is refused and
\* leaves the directory as it was.
C12_HandleLengthLimits ==
    [][ ( last'.op = "accept" /\ last'.flag = CLIENT_INIT_PACKET_TO_SERVER )
        => LET p == last'.payload
               h == SubSeq(p, 2, 1 + p[1])
           IN  IF ValidHandleLength(p)
               THEN ~HasHandle(clientTable, h)
                    => /\ Maps(clientTable', h, last'.sock)
                       /\ clientTable'.count = clientTable.count + 1
                       /\ out' = << Pdu(last'.sock, CONFIRM_GOOD_HANDLE, << >>) >>
                       /\ last'.sock \in open'
               ELSE /\ clientTable' = clientTable
                    /\ ~Has(trace', "insert")
                    /\ last'.sock \notin open'
      ]_vars

----------------------------------------------------------------------------
(* Connections that fail or misbehave *)

\* The table, the watch set and the open connections agree: every live slot
\* names an open, watched connection, every open connection has exactly one
\* live slot, no two live slots carry the same bytes, and the slots behind
\* the live ones carry no handle.
Consistent(t, pfds, conns) ==
    /\ \A i \in 1..t.count :
          /\ t.array[i].socketNumber \in conns
          /\ WatchedIn(pfds, t.array[i].socketNumber)
          /\ t.array[i].handle.handleLength # 0
    /\ \A fd \in conns :
          Cardinality({ i \in 1..t.count : t.array[i].socketNumber = fd }) = 1
    /\ \A i, j \in 1..t.count :
          i # j => t.array[i].handle.handle # t.array[j].handle.handle
    /\ \A k \in (t.count + 1)..t.capacity : t.array[k].handle.handleLength = 0
    /\ \A fd \in ClientFds : WatchedIn(pfds, fd) => fd \in conns

WatchedSlots ==
    { i \in 0..(currentPollSetSize - 1) : pollFileDescriptors[i].events # 0 }

\* The connections of the directory's entries.
EntrySockets ==
    { clientTable.array[i].socketNumber : i \in 1..clientTable.count }

\* C35: whenever the server waits in pollCall, the watched descriptors are
\* the listening socket and the connection of every directory entry, no more
\* and no less, each in the slot of its own number and below
\* maxFileDescriptor, and no connection is in two entries.
C35_WatchSetIsDirectory ==
    running
    => /\ WatchedSlots = { ServerSocket } \cup EntrySockets
       /\ \A i \in WatchedSlots :
             /\ pollFileDescriptors[i] = [fd |-> i, events |-> POLLIN]
             /\ i < maxFileDescriptor
       /\ \A i, j \in 1..clientTable.count :
             i # j => clientTable.array[i].socketNumber
                        # clientTable.array[j].socketNumber

\* The server waits with two registered clients after it has closed the
\* connection of a third, whose slot lies below theirs.
C35_Witness ==
    /\ running
    /\ Has(trace, "unwatch")
    /\ clientTable.count = 2
    /\ \E fd \in ClientFds :
          /\ fd \notin WatchedSlots
          /\ \A g \in EntrySockets : fd < g

\* The server is inside a handler, in a recv() that does not return.
ServerBlocked ==
    /\ pollCall # 0 - 1
    /\ recvBlocks(IF pollCall = ServerSocket THEN Head(backlog)
                  ELSE Head(inq[pollCall]))

\* C14: whatever one client does (it connects and stays silent, sends part
\* of a frame, sends malformed PDUs, goes away abruptly), the server process
\* keeps running and is never held inside that client's handler, so that it
\* can go on receiving and routing the other connections' PDUs.
C14_ServerKeepsServing ==
    running /\ ~ServerBlocked

\* C33: a connection that is accepted and never sends a complete
\* Registration does not stop the server: the input that a registered client
\* has sent in full is eventually read, and a connection that waits with a
\* complete Registration is eventually accepted.
C33_SilentConnectionDoesNotStopServer ==
    /\ \A fd \in ClientFds :
          (fd \in open /\ inq[fd] # << >>)
              ~> (fd \notin open \/ inq[fd] = << >>)
    /\ (\E i \in 1..Len(backlog) : ~Silent(backlog[i]))
          ~> (\A i \in 1..Len(backlog) : Silent(backlog[i]))

\* What the handler of the step read from the stream.
Consumed(l) == IF l.op = "accept" THEN Head(backlog) ELSE Head(inq[l.sock])

ServerStep(l) == l.op \in { "accept", "packet" }

\* The connection is closed, unwatched and has no entry after the step.
ClosedAndRemoved(c) ==
    /\ c \notin open'
    /\ ~WatchedIn(pollFileDescriptors', c)
    /\ ~HasSocket(clientTable', c)

\* The step leaves the entry, the watch-set membership and the open state of
\* every connection other than c as they were.
OthersUntouched(c) ==
    /\ \A fd \in ClientFds \ {c} :
          /\ (fd \in open') <=> (fd \in open)
          /\ WatchedIn(pollFileDescriptors', fd) <=> WatchedIn(pollFileDescriptors, fd)
    /\ { Entries(clientTable')[i] : i \in 1..clientTable'.count }
       = { e \in { Entries(clientTable)[i] : i \in 1..clientTable.count } :
               e.sock # c }

\* The frame ends before the payload that its header announces.
ClosedMidFrame(item) ==
    /\ item.kind = "pdu"
    /\ item.then = "fin"
    /\ item.total > SIZE_CHAT_HEADER
    /\ Len(item.payload) < item.total - SIZE_CHAT_HEADER

\* C15: when receiving from a connection fails or its stream ends, or when
\* sending to it fails, the server closes that connection and removes its
\* entry if it has one; a stream that ends in the middle of a frame leaves
\* the server running too; in each case every other connection keeps its
\* entry, its place in the watch set and its open state.
C15_FailureClosesOnlyThatConnection ==
    [][ ServerStep(last')
        => LET c == last'.sock
               item == Consumed(last')
           IN  /\ item.kind \in { "error", "close" }
                     => running' /\ ClosedAndRemoved(c) /\ OthersUntouched(c)
               /\ ClosedMidFrame(item)
                     => running' /\ OthersUntouched(c)
               /\ ( /\ last'.op = "packet"
                    /\ item = Frame(CLIENT_TO_SERVER_LIST_OF_HANDLES, << >>)
                    /\ c \in sendFails )
                     => running' /\ ClosedAndRemoved(c) /\ OthersUntouched(c)
      ]_vars

\* A PDU of a registered connection that has to be rejected: its header
\* announces less than a header or more payload than the receive buffer
\* holds, the sender length of a Broadcast exceeds the payload, or its type
\* is not one a registered client may send.
Malformed(item) ==
    /\ item.kind = "pdu"
    /\ \/ item.total < SIZE_CHAT_HEADER
       \/ item.total - SIZE_CHAT_HEADER > MAXBUF
       \/ /\ item.flag = BROADCAST_PACKET
          /\ item.total = Len(item.payload) + SIZE_CHAT_HEADER
          /\ ~WellFormedBroadcast(item.payload)
       \/ item.flag \notin { BROADCAST_PACKET, MESSAGE_PACKET,
                             CLIENT_TO_SERVER_EXIT,
                             CLIENT_TO_SERVER_LIST_OF_HANDLES }

\* C16: a PDU with a malformed header, inconsistent length fields or a type
\* that is not valid in the connection's state is rejected, nothing of it is
\* routed, the server process keeps running, and the directory, the watch
\* set and the open connections stay consistent.
C16_MalformedPduRejected ==
    [][ ( last'.op = "packet" /\ Malformed(Consumed(last')) )
        => /\ running'
           /\ out' = << >>
           /\ Consistent(clientTable', pollFileDescriptors', open')
           /\ \A fd \in ClientFds \ {last'.sock} :
                 (fd \in open') <=> (fd \in open)
      ]_vars

\* C17: when a Broadcast is fanned out and sending to one recipient fails,
\* the server keeps running and every other recipient in the directory
\* still gets the Broadcast PDU.
C17_BroadcastSurvivesSendFailure ==
    [][ ( /\ last'.op = "packet"
          /\ last'.flag = BROADCAST_PACKET
          /\ Consumed(last') = Frame(BROADCAST_PACKET, last'.payload)
          /\ Len(last'.payload) <= MAXBUF
          /\ WellFormedBroadcast(last'.payload)
          /\ \E i \in 1..clientTable.count :
                /\ clientTable.array[i].socketNumber # last'.sock
                /\ clientTable.array[i].socketNumber \in sendFails )
        => /\ running'
           /\ \A i \in 1..clientTable.count :
                 LET s == clientTable.array[i].socketNumber
                 IN  (s # last'.sock /\ s \notin sendFails)
                     => Has(out', Pdu(s, BROADCAST_PACKET, last'.payload))
      ]_vars

\* C18: when sending a PDU of a list response fails, the server keeps
\* running and still attempts every phase: the count, one PDU per entry and
\* the end marker, each attempt a send that succeeds or a send that fails.
C18_ListSurvivesSendFailure ==
    [][ ( /\ last'.op = "packet"
          /\ Consumed(last') = Frame(CLIENT_TO_SERVER_LIST_OF_HANDLES, << >>)
          /\ last'.sock \in sendFails )
        => /\ running'
           /\ Len(trace') = clientTable.count + 2
           /\ \A k \in 1..Len(trace') : trace'[k] \in { "send", "sendfail" }
      ]_vars

----------------------------------------------------------------------------
(* Growth *)

\* C19: inserting into a full table (count = capacity, 10 at first) and
\* watching a descriptor at or beyond the size of the poll set both succeed
\* by growing the storage: the entries and poll slots that existed are kept
\* unchanged and in order, the new one is added, the client is confirmed and
\* the process goes on.
C19_GrowthKeepsEntries ==
    [][ last'.op = "accept"
        => LET c == last'.sock
               h == SubSeq(last'.payload, 2, Len(last'.payload))
           IN  /\ running'
               /\ out' = << Pdu(c, CONFIRM_GOOD_HANDLE, << >>) >>
               /\ clientTable'.count = clientTable.count + 1
               /\ Maps(clientTable', h, c)
               /\ SelectSeq(Entries(clientTable'), LAMBDA e : e.sock # c)
                     = Entries(clientTable)
               /\ clientTable.count = clientTable.capacity
                     => clientTable'.capacity > clientTable.capacity
               /\ c \in open'
               /\ WatchedIn(pollFileDescriptors', c)
               /\ currentPollSetSize' > c
               /\ \A i \in 0..(currentPollSetSize - 1) :
                     i # c => pollFileDescriptors'[i] = pollFileDescriptors[i]
      ]_vars

\* The eleventh client has been registered: the table has grown from 10 to
\* 20 slots and the poll set, since descriptor 10, from 10 to 20.
C19_Witness ==
    /\ last.op = "accept"
    /\ clientTable.count = INITIAL_CAPACITY + 1
    /\ clientTable.capacity = INITIAL_CAPACITY * RESIZE_FACTOR
    /\ currentPollSetSize > POLL_SET_SIZE
    /\ WatchedIn(pollFileDescriptors, ServerSocket + INITIAL_CAPACITY + 1)
    /\ \A fd \in open : HasSocket(clientTable, fd)

\* C36: every addToPollSet and removeFromPollSet call indexes the poll
\* array below its current size: a descriptor that a handler adds is below
\* the size the array has after the call, which grows it where needed, and
\* a descriptor that a handler removes is below the size the array has,
\* also when its handshake failed and it was never added.
C36_PollIndexInBounds ==
    [][ last'.op = "accept"
        => /\ Has(trace', "watch") => last'.sock < currentPollSetSize'
           /\ Has(trace', "unwatch") => last'.sock < currentPollSetSize
      ]_vars

----------------------------------------------------------------------------
(* Framing *)

\* The frame of a PDU as the protocol defines it: total length, two bytes,
\* most significant first; type, one byte; payload.
WireFormat(f) ==
    << (Len(f.payload) + 3) \div 256, (Len(f.payload) + 3) % 256, f.flag >>
        \o f.payload

\* C20: for types 0..255 and payloads of up to 65532 bytes, sendBuf writes
\* the 2-byte big-endian total length len+3, the type and the payload, and
\* recvBuf decodes these bytes into the same type and the same payload;
\* frames written one after the other are decoded one per call, in order.
C20_CodecRoundTrip ==
    [][ /\ last'.op = "sendBuf"
           => wire' = ConcatAll([k \in 1..Len(out') |-> WireFormat(out'[k])])
        /\ last'.op = "recvBuf"
           => /\ out # << >>
              /\ last'.flag = Head(out).flag
              /\ last'.payload = Head(out).payload
              /\ last'.len = ( IF Head(out).payload = << >>
                               THEN VALID_ZERO_PAYLOAD
                               ELSE Len(Head(out).payload) )
              /\ wire' = ConcatAll([k \in 1..Len(out') |-> WireFormat(out'[k])])
      ]_vars

\* A frame of the largest type whose total length needs both bytes of the
\* length field has just been decoded, and the frame written after it is
\* still on the stream.
C20_Witness ==
    /\ last.op = "recvBuf"
    /\ last.flag = 255
    /\ Len(last.payload) = 256 - SIZE_CHAT_HEADER
    /\ Len(out) = 1
    /\ Len(wire) >= SIZE_CHAT_HEADER

\* C21: recvBuf yields a PDU only after the 3 header bytes and all the
\* totalLength-3 payload bytes: when the peer closes after part of a frame,
\* the result is Closed or a transport error, and nothing is routed from the
\* partial read.
C21_NoPduFromPartialRead ==
    [][ ( ServerStep(last') /\ ClosedMidFrame(Consumed(last')) )
        => /\ last'.len = 0 - 1 \/ Has(trace', "exit")
           /\ out' = << >>
      ]_vars

\* The header of the frame announces no payload.
HeaderOnly(item) == item.kind = "pdu" /\ item.total = SIZE_CHAT_HEADER

WholeFrame(item) ==
    /\ item.kind = "pdu"
    /\ item.total = Len(item.payload) + SIZE_CHAT_HEADER
    /\ Len(item.payload) >= 1

\* C28: recvBuf returns the number of payload bytes received, or 0 if the
\* connection is closed.
C28_RecvBufReturnsCountOrZero ==
    [][ ServerStep(last')
        => LET item == Consumed(last')
           IN  /\ item.kind = "close" => last'.len = 0
               /\ WholeFrame(item) => last'.len = Len(item.payload)
      ]_vars

----------------------------------------------------------------------------
(* Order of processing *)

\* The descriptor that the step served.
Served(l) == IF l.op = "accept" THEN ServerSocket ELSE l.sock

\* The slot, if any, that the server reads after a DirectMessage header: the
\* number of destinations.
DestinationCount(payload) == payload[payload[1] + 2]

\* C25: between two returns of pollCall the server handles exactly one
\* ready descriptor to completion: it takes one connection from the listen
\* queue and runs its handshake, or reads one PDU of one connection, and
\* writes every PDU this calls for (the confirmation; one forward per other
\* entry; one forward or error per destination) before it waits again; the
\* input of every other descriptor is left where it was, and nothing but a
\* handler changes the directory, the watch set or the connections.
C25_OneDescriptorPerWake ==
    [][ /\ ServerStep(last')
           => LET c == last'.sock
                  item == Consumed(last')
              IN  /\ Served(last') = pollCall
                  /\ \A fd \in ClientFds \ {c} : inq'[fd] = inq[fd]
                  /\ IF last'.op = "accept"
                     THEN /\ backlog' = Tail(backlog)
                          /\ inq'[c] = << >>
                          /\ out' = << Pdu(c, CONFIRM_GOOD_HANDLE, << >>) >>
                          /\ trace' = << "insert", "send", "watch" >>
                     ELSE /\ backlog' = backlog
                          /\ inq'[c] = Tail(inq[c])
                          /\ item.flag = BROADCAST_PACKET
                                => Len(out') = clientTable.count - 1
                          /\ item.flag = MESSAGE_PACKET
                                => Len(out') = DestinationCount(item.payload)
                          /\ \A k \in 1..Len(trace') : trace'[k] = "send"
                  /\ \A fd \in ClientFds :
                        LET old == history.delivered[fd]
                            new == history'.delivered[fd]
                        IN  /\ Len(new) >= Len(old)
                            /\ SubSeq(new, 1, Len(old)) = old
                            /\ \A k \in (Len(old) + 1)..Len(new) : new[k].from = c
        /\ ~ServerStep(last')
           => /\ clientTable' = clientTable
              /\ pollFileDescriptors' = pollFileDescriptors
              /\ open' = open
              /\ history'.delivered = history.delivered
      ]_vars

\* A DirectMessage to three destinations has just been handled in full
\* while the input of another connection was waiting and stays where it was.
C25_Witness ==
    /\ last.op = "packet"
    /\ last.flag = MESSAGE_PACKET
    /\ Len(out) = 3
    /\ \E fd \in ClientFds \ {last.sock} : inq[fd] # << >>

\* The forwards among the PDUs written to descriptor fd.
Forwards(fd) ==
    SelectSeq(history.delivered[fd],
              LAMBDA d : d.flag \in { BROADCAST_PACKET, MESSAGE_PACKET })

\* The number that the sender gave the message: the byte of its text.
SeqNo(payload) == payload[Len(payload) - 1]

\* C26: the PDUs of one connection are processed in the order received: of
\* two messages of the same connection that are forwarded to the same
\* recipient, the earlier one is on the recipient's stream first, each as it
\* was sent (there is no reassembly), whatever forwards of other senders
\* lie between them.
C26_PerConnectionOrder ==
    \A fd \in ClientFds :
        LET f == Forwards(fd)
        IN  /\ \A i, j \in 1..Len(f) :
                  (i < j /\ f[i].from = f[j].from)
                  => SeqNo(f[i].payload) < SeqNo(f[j].payload)
            /\ \A i \in 1..Len(f) :
                  /\ SeqNo(f[i].payload) <= history.sent[f[i].from]
                  /\ \E h \in OrderNames :
                        Frame(f[i].flag, f[i].payload)
                           \in OrderMessages(h, SeqNo(f[i].payload))

\* A recipient has got the first message of one sender, then a message of
\* another sender, then the second message of the first.
C26_Witness ==
    \E fd \in ClientFds :
        LET f == Forwards(fd)
        IN  \E i \in 1..(Len(f) - 2) :
               /\ f[i].from = f[i + 2].from
               /\ f[i].from # f[i + 1].from
               /\ SeqNo(f[i].payload) = 1
               /\ SeqNo(f[i + 2].payload) = 2

\* C27: pollCall hands the dispatcher the lowest-numbered descriptor that
\* has pending events, however many are ready and however long the others
\* have been ready; the others keep their input, so that a connection with
\* pending input stays unserved for as long as a lower descriptor is ready
\* at every wake.
C27_LowestReadyFirst ==
    [][ ServerStep(last')
        => /\ Served(last') \in ReadySlots
           /\ \A i \in ReadySlots : Served(last') <= i
           /\ \A fd \in ReadySlots \ {Served(last')} :
                 /\ inq'[fd] = inq[fd]
                 /\ history'.skipped[fd] = history.skipped[fd] + 1
      ]_vars

\* A connection has had input waiting at two wakes in a row and was passed
\* over both times, for a lower descriptor that was ready.
C27_Witness ==
    \E fd \in ClientFds :
        /\ history.skipped[fd] >= 2
        /\ inq[fd] # << >>
        /\ ServerStep(last)
        /\ Served(last) < fd

\* The value of a 4-byte count in network byte order.
CountOf(payload) ==
    payload[1] * 16777216 + payload[2] * 65536 + payload[3] * 256 + payload[4]

\* On the stream d of one descriptor, position i holds a ListCountResponse
\* that is followed at once by as many ListHandleResponse PDUs as it counts
\* and by a ListEndResponse, all written by the handler of this
\* descriptor's own request.
WholeListAt(d, fd, i) ==
    LET N == CountOf(d[i].payload)
    IN  /\ d[i].from = fd
        /\ i + N + 1 <= Len(d)
        /\ \A k \in 1..N : /\ d[i + k].flag = LIST_RESPONSE_HANDLE
                            /\ d[i + k].from = fd
        /\ d[i + N + 1].flag = LIST_RESPONSE_END
        /\ d[i + N + 1].from = fd

\* Every PDU of a list response on d belongs to one whole response.
ListsContiguous(d, fd) ==
    /\ \A i \in 1..Len(d) :
          d[i].flag = LIST_RESPONSE_NUM => WholeListAt(d, fd, i)
    /\ \A j \in 1..Len(d) :
          d[j].flag \in { LIST_RESPONSE_HANDLE, LIST_RESPONSE_END }
          => \E i \in 1..j :
                /\ d[i].flag = LIST_RESPONSE_NUM
                /\ j <= i + CountOf(d[i].payload) + 1

\* C34: the PDUs of one list response are contiguous on the requester's
\* stream and describe one state of the directory: nothing that another
\* connection's traffic causes lies between the ListCountResponse and the
\* ListEndResponse, the count is the number of ListHandleResponse PDUs that
\* follow, and these are the entries of the table at the request, which the
\* response leaves as it is.
C34_ListResponseContiguous ==
    [][ /\ \A fd \in ClientFds : ListsContiguous(history'.delivered[fd], fd)
        /\ ( /\ last'.op = "packet"
              /\ last'.flag = CLIENT_TO_SERVER_LIST_OF_HANDLES )
           => /\ clientTable' = clientTable
              /\ Len(out') = clientTable.count + 2
              /\ \A k \in 1..clientTable.count :
                    out'[k + 1].payload =
                       LenPrefixed(clientTable.array[k].handle.handle)
      ]_vars

\* A client has got a Broadcast of another client, then a whole list of
\* three handles, then another Broadcast.
C34_Witness ==
    \E fd \in ClientFds :
        LET d == history.delivered[fd]
        IN  \E i \in 1..(Len(d) - 6) :
               /\ d[i].flag = BROADCAST_PACKET
               /\ d[i + 1].flag = LIST_RESPONSE_NUM
               /\ CountOf(d[i + 1].payload) = 3
               /\ d[i + 5].flag = LIST_RESPONSE_END
               /\ d[i + 6].flag = BROADCAST_PACKET

\* The types that a registered client may send.
ClientTypes ==
    { BROADCAST_PACKET, MESSAGE_PACKET, CLIENT_TO_SERVER_EXIT,
      CLIENT_TO_SERVER_LIST_OF_HANDLES }

\* C30: a PDU of a registered connection whose type is not Broadcast,
\* DirectMessage, Exit or ListRequest (a second Registration included) is
\* dropped: the directory, the watch set, the open connections and the
\* connection's registration are as before, and no PDU is sent to anyone.
C30_UnknownTypeDropped ==
    [][ ( /\ last'.op = "packet"
          /\ Consumed(last').kind = "pdu"
          /\ Consumed(last').flag \notin ClientTypes )
        => LET c == last'.sock
           IN  /\ running'
               /\ out' = << >>
               /\ trace' = << >>
               /\ clientTable' = clientTable
               /\ pollFileDescriptors' = pollFileDescriptors
               /\ maxFileDescriptor' = maxFileDescriptor
               /\ open' = open
               /\ HasSocket(clientTable', c)
               /\ WatchedIn(pollFileDescriptors', c)
               /\ c \in open'
      ]_vars

\* A registered client has just sent a second Registration, with payload;
\* it is still registered under its handle, among others.
C30_Witness ==
    /\ last.op = "packet"
    /\ last.flag = CLIENT_INIT_PACKET_TO_SERVER
    /\ last.len >= 1
    /\ out = << >>
    /\ HasSocket(clientTable, last.sock)
    /\ clientTable.count >= 2

----------------------------------------------------------------------------
(* Segmentation *)

\* The least number of parts of at most m bytes that n bytes fall into.
CeilDiv(n, m) == (n + m - 1) \div m

\* The addressing header of the command that the step ran.
AddressingHeader(l) ==
    LenPrefixed(l.sender)
       \o ( IF l.op = "%M"
            THEN << Len(l.dests) >>
                    \o ConcatAll([i \in 1..Len(l.dests) |-> LenPrefixed(l.dests[i])])
            ELSE << >> )

ClientCommand(l) == l.op \in { "%M", "%B" }

\* C23: a message body of length L greater than the per-packet text maximum
\* M (200 bytes including the terminator) is sent as exactly ceil(L/M)
\* packets of the command's type, each of which starts with a complete copy
\* of the addressing header.
C23_SegmentCount ==
    [][ ( ClientCommand(last') /\ last'.len > MAX_TEXT_PER_PACKET )
        => /\ Len(out') = CeilDiv(last'.len, MAX_TEXT_PER_PACKET)
           /\ \A k \in 1..Len(out') :
                 /\ out'[k].flag = last'.flag
                 /\ SubSeq(out'[k].payload, 1, Len(AddressingHeader(last')))
                       = AddressingHeader(last')
      ]_vars

\* The text of a packet: what follows the addressing header, without the
\* last byte.
TextOf(l, pdu) ==
    SubSeq(pdu.payload, Len(AddressingHeader(l)) + 1, Len(pdu.payload) - 1)

\* C24: the packets sent for one body carry, after a full copy of the
\* addressing header (sender and, for %M, the whole destination list), at
\* most 199 body bytes and one NUL; consecutive packets take consecutive
\* ranges of the body, so that the texts concatenated in send order are the
\* body; a body of length 0 is sent as exactly one packet with empty text.
C24_SegmentsOrderedAndComplete ==
    [][ ClientCommand(last')
        => LET l == last'
               hdr == AddressingHeader(l)
           IN  /\ Len(out') >= 1
               /\ \A k \in 1..Len(out') :
                     /\ out'[k].flag = l.flag
                     /\ Len(out'[k].payload) >= Len(hdr) + 1
                     /\ SubSeq(out'[k].payload, 1, Len(hdr)) = hdr
                     /\ out'[k].payload[Len(out'[k].payload)] = 0
                     /\ Len(TextOf(l, out'[k])) <= MAX_TEXT_PER_PACKET - 1
                     /\ TextOf(l, out'[k])
                          = SubSeq(l.payload, (k - 1) * (MAX_TEXT_PER_PACKET - 1) + 1,
                                   Min(k * (MAX_TEXT_PER_PACKET - 1), l.len))
               /\ ConcatAll([k \in 1..Len(out') |-> TextOf(l, out'[k])]) = l.payload
               /\ l.len = 0 => Len(out') = 1
      ]_vars

----------------------------------------------------------------------------
(* The client's list command *)

\* The positions of a stream of PDUs at which a PDU ends.
RECURSIVE PduBoundaries(_)
PduBoundaries(pdus) ==
    IF pdus = << >> THEN { 0 }
    ELSE { 0 } \cup { SIZE_CHAT_HEADER + Len(Head(pdus).payload) + b :
                        b \in PduBoundaries(Tail(pdus)) }

\* C38: when handleListCommand returns, every byte it has read from the
\* connection belongs to the list response (none to a Broadcast,
\* DirectMessage or error PDU that was written to the connection before the
\* ListCountResponse), and the stream is at the end of a PDU.
C38_ListCommandReadsOnlyListResponse ==
    [][ (last'.op = "%L" /\ ~last'.blocked)
           => /\ last'.len > 0 => last'.ahead = 0
              /\ last'.len \in PduBoundaries(out')
      ]_vars

\* With nothing written ahead of it, the response to a ListRequest is read
\* to its last byte and every handle of the directory is printed in the
\* order of the directory: handleListCommand reads the list response as the
\* server writes it.
ListCommandReadsWholeResponse ==
    [][ (last'.op = "%L" /\ last'.ahead = 0)
           => /\ ~last'.blocked
              /\ last'.len = Len(last'.payload)
              /\ wire' = << >>
              /\ last'.printed = [i \in 1..clientTable.count |->
                                     clientTable.array[i].handle.handle]
      ]_vars

----------------------------------------------------------------------------
(* Routing *)

\* C3: a well-formed Broadcast from registered connection A, with N entries
\* in the directory, makes the server send exactly N-1 PDUs: one Broadcast
\* PDU with A's payload, byte for byte, to the connection of every other
\* entry, and none to A.
C3_BroadcastFanOut ==
    [][ ( /\ last'.op = "packet"
          /\ last'.flag = BROADCAST_PACKET
          /\ WellFormedBroadcast(last'.payload) )
        => LET A == last'.sock
               N == clientTable.count
               Others == { clientTable.array[i].socketNumber : i \in 1..N } \ {A}
           IN  /\ HasSocket(clientTable, A)
               /\ Cardinality(Others) = N - 1
               /\ Len(out') = N - 1
               /\ { out'[k].sock : k \in 1..Len(out') } = Others
               /\ \A k \in 1..Len(out') :
                     /\ out'[k].flag = BROADCAST_PACKET
                     /\ out'[k].payload = last'.payload
                     /\ out'[k].sock # A
               /\ clientTable' = clientTable
      ]_vars

\* A broadcast has just been forwarded to the two other registered clients.
C3_Witness ==
    /\ last.op = "packet"
    /\ last.flag = BROADCAST_PACKET
    /\ clientTable.count = 3
    /\ Len(out) = 2
    /\ out[1].sock # out[2].sock

\* The number of PDUs a handler may write for the PDU it has read: one per
\* slot of the directory for a Broadcast, one per slot besides the count
\* and the end marker for a ListRequest, one per destination announced for
\* a DirectMessage.
SendBound(t, flag, payload) ==
    IF flag = BROADCAST_PACKET THEN t.capacity
    ELSE IF flag = CLIENT_TO_SERVER_LIST_OF_HANDLES THEN t.capacity + 2
    ELSE IF flag = MESSAGE_PACKET
    THEN IF Len(payload) >= 1 /\ Len(payload) >= payload[1] + 2
         THEN Min(payload[payload[1] + 2], 255) ELSE 0
    ELSE 1

\* Every call of a handler of processClientPacket writes a bounded number
\* of PDUs and returns.
HandlerSendsBounded ==
    [][ last'.op = "packet"
           => Len(out') <= SendBound(clientTable, last'.flag, last'.payload)
      ]_vars

\* A registered client whose next PDU is a ListRequest.
ListPending(fd) ==
    /\ fd \in open
    /\ HasSocket(clientTable, fd)
    /\ inq[fd] # << >>
    /\ Head(inq[fd]) = Frame(CLIENT_TO_SERVER_LIST_OF_HANDLES, << >>)

\* The server has just answered a ListRequest of fd up to the end marker.
ListAnswered(fd) ==
    /\ last.op = "packet"
    /\ last.sock = fd
    /\ last.flag = CLIENT_TO_SERVER_LIST_OF_HANDLES
    /\ out # << >>
    /\ out[Len(out)] = Pdu(fd, LIST_RESPONSE_END, << >>)

\* C39: when the server loop serves the ready descriptors fairly and no
\* send or receive fails, every ListRequest of a registered client is
\* answered in the end with a ListEndResponse, and every call of a handler
\* returns after a bounded number of sends: at most one per directory slot
\* for a Broadcast and for a list, at most one per announced destination,
\* at most 255, for a DirectMessage.
C39_ListRequestEventuallyAnswered ==
    /\ \A fd \in ClientFds : ListPending(fd) ~> ListAnswered(fd)
    /\ HandlerSendsBounded

\* C5: a ListRequest is answered, to the requester only, by one
\* ListCountResponse whose four bytes are the entry count in network byte
\* order, then one ListHandleResponse [length][bytes] per entry in directory
\* order, then one ListEndResponse with empty payload, and nothing else.
C5_ListResponse ==
    [][ ( /\ last'.op = "packet"
          /\ last'.flag = CLIENT_TO_SERVER_LIST_OF_HANDLES )
        => LET N == clientTable.count
           IN  /\ Len(out') = N + 2
               /\ \A k \in 1..Len(out') : out'[k].sock = last'.sock
               /\ out'[1].flag = LIST_RESPONSE_NUM
               /\ Len(out'[1].payload) = 4
               /\ ntohl(out'[1].payload) = N
               /\ \A i \in 1..N :
                     /\ out'[i + 1].flag = LIST_RESPONSE_HANDLE
                     /\ out'[i + 1].payload =
                           << clientTable.array[i].handle.handleLength >>
                              \o clientTable.array[i].handle.handle
               /\ out'[N + 2] = Pdu(last'.sock, LIST_RESPONSE_END, << >>)
               /\ clientTable' = clientTable
      ]_vars

\* A list of three handles has just been sent.
C5_Witness ==
    /\ last.op = "packet"
    /\ last.flag = CLIENT_TO_SERVER_LIST_OF_HANDLES
    /\ clientTable.count = 3
    /\ Len(out) = 5
    /\ out[1].payload = << 0, 0, 0, 3 >>

\* C4: a well-formed DirectMessage from S with destinations d1..dk is
\* handled in list order: a destination whose bytes are in the directory gets
\* the whole received payload as a DirectMessage PDU on its connection, any
\* other destination gives one UnknownDestinationError PDU [len][di] to S.
C4_DirectMessageRouting ==
    [][\A d \in DestLists :
          ( /\ last'.op = "packet"
            /\ last'.flag = MESSAGE_PACKET
            /\ last'.payload = MessagePayload(<<97>>, d, <<120, 0>>) )
          => /\ Len(out') = Len(d)
             /\ \A i \in 1..Len(d) :
                   IF HasHandle(clientTable, d[i])
                   THEN /\ out'[i].flag = MESSAGE_PACKET
                        /\ out'[i].payload = last'.payload
                        /\ Maps(clientTable, d[i], out'[i].sock)
                   ELSE out'[i] = Pdu(last'.sock, ERROR_INVALID_HANDLE,
                                      LenPrefixed(d[i]))
      ]_vars

\* C31: a DirectMessage whose destination list is truncated, or whose
\* destination length bytes do not fit the payload, is rejected as a whole:
\* the server sends nothing, neither a forwarded copy nor an
\* UnknownDestinationError, also when earlier destinations are well formed.
C31_TruncatedMessageRejected ==
    [][ ( /\ last'.op = "packet"
          /\ last'.flag = MESSAGE_PACKET
          /\ last'.payload \in TruncatedMessages )
        => out' = << >>
      ]_vars

\* The handle under which socket s is registered.
HandleOf(t, s) ==
    t.array[CHOOSE i \in 1..t.count : t.array[i].socketNumber = s].handle.handle

\* The handle h was registered by a connection that has left, and no
\* connection holds it now.
Released(h) ==
    /\ h \in history.released
    /\ ~HasHandle(clientTable, h)

\* The handle h was registered by a connection that has left, and holds an
\* entry again.
RegisteredAgain(h) ==
    /\ h \in history.released
    /\ HasHandle(clientTable, h)

\* C32: once the server has processed the exit or the disconnect of the
\* client registered as h, a new connection that registers h is accepted
\* under it, and from then on a DirectMessage with destination h goes to
\* that new connection, also when it has the descriptor number of the old.
C32_HandleReusable ==
    [][ /\ \A h \in ReuseNames :
             ( /\ last'.op = "accept"
               /\ last'.flag = CLIENT_INIT_PACKET_TO_SERVER
               /\ last'.payload = LenPrefixed(h)
               /\ Released(h) )
             => /\ Maps(clientTable', h, last'.sock)
                /\ out' = << Pdu(last'.sock, CONFIRM_GOOD_HANDLE, << >>) >>
                /\ WatchedIn(pollFileDescriptors', last'.sock)
        /\ \A d \in ReuseDests :
             ( /\ last'.op = "packet"
               /\ last'.flag = MESSAGE_PACKET
               /\ last'.payload = MessagePayload(<<97>>, d, <<120, 0>>) )
             => \A i \in 1..Len(d) :
                   RegisteredAgain(d[i])
                   => /\ Len(out') >= i
                      /\ out'[i].flag = MESSAGE_PACKET
                      /\ Maps(clientTable, d[i], out'[i].sock)
                      /\ out'[i].sock \in open
      ]_vars

\* The sender handle that a Broadcast or DirectMessage payload carries.
SenderOf(payload) == SubSeq(payload, 2, 1 + payload[1])

Forwarded(pdu) == pdu.flag \in { BROADCAST_PACKET, MESSAGE_PACKET }

\* C37 as stated: the sender handle in every Broadcast or DirectMessage PDU
\* that the server forwards is the handle under which the originating
\* connection is registered, whatever sender bytes the payload had.
C37_ForwardedSenderIsRegistered ==
    [][ (last'.op = "packet" /\ HasSocket(clientTable, last'.sock))
        => \A i \in 1..Len(out') :
              Forwarded(out'[i])
              => SenderOf(out'[i].payload) = HandleOf(clientTable, last'.sock)
      ]_vars

\* C37, amended: every Broadcast or DirectMessage PDU that the server
\* forwards has the payload that the originating connection sent, byte for
\* byte, and so the sender handle that this connection wrote in it; the
\* handle registered for the connection is not looked at.
C37_ForwardedSenderIsAsSent ==
    [][ last'.op = "packet"
        => \A i \in 1..Len(out') :
              Forwarded(out'[i])
              => /\ out'[i].flag = Consumed(last').flag
                 /\ out'[i].payload = Consumed(last').payload
                 /\ SenderOf(out'[i].payload) = SenderOf(Consumed(last').payload)
      ]_vars

\* A PDU has just been forwarded whose sender handle, "z", is the handle of
\* no registered client.
C37_Witness ==
    /\ last.op = "packet"
    /\ out # << >>
    /\ Forwarded(out[1])
    /\ SenderOf(out[1].payload) = << 122 >>
    /\ ~HasHandle(clientTable, << 122 >>)
    /\ HasSocket(clientTable, last.sock)


\* C6: on Exit from registered connection C the server sends ExitAck with
\* empty payload to C, then removes C's entry, then unwatches and closes C;
\* afterwards the lookup of C's former handle finds nothing, and no PDU is
\* ever written to a socket that is not open.
C6_ExitSequence ==
    [][ /\ ( last'.op = "packet" /\ last'.flag = CLIENT_TO_SERVER_EXIT )
           => LET C == last'.sock
                  h == HandleOf(clientTable, C)
              IN  /\ trace' = << "send", "remove", "unwatch", "close" >>
                  /\ out' = << Pdu(C, EXIT_ACK, << >>) >>
                  /\ clientTable'.count = clientTable.count - 1
                  /\ ~HasSocket(clientTable', C)
                  /\ ~HasHandle(clientTable', h)
                  /\ ~WatchedIn(pollFileDescriptors', C)
                  /\ C \notin open'
                  /\ getSocketForHandle(clientTable', h) = 0 - 1
        /\ \A k \in 1..Len(out') :
              out'[k].sock \in open \/ out'[k].sock = last'.sock
      ]_vars

----------------------------------------------------------------------------
(* Handle directory *)

Lookup(t, h) == getSocketForHandle(t, h)

\* The step removes by handle h or by connection c.
RemovalMatching(l, h, c) ==
    \/ l.op = "removeByHandle" /\ l.payload = h
    \/ l.op = "removeBySocket" /\ l.sock = c

\* C7: once insert(h, c) has succeeded, lookup(h) returns c in every state
\* until a removal by handle h or by connection c, and NotFound from that
\* removal until h is inserted again.
C7_LookupFollowsInsertAndRemove ==
    [][\A h \in DirNames :
          /\ ( last'.op = "add" /\ last'.payload = h /\ last'.len = 1 )
                => Lookup(clientTable', h) = last'.sock
          /\ \A c \in ClientFds :
                Maps(clientTable, h, c)
                => IF RemovalMatching(last', h, c)
                   THEN Lookup(clientTable', h) = 0 - 1
                   ELSE Lookup(clientTable', h) = c
          /\ ( /\ h \in inserted
               /\ ~HasHandle(clientTable, h)
               /\ ~(last'.op = "add" /\ last'.payload = h /\ last'.len = 1) )
                => Lookup(clientTable', h) = 0 - 1
      ]_vars

\* C8: after every insert and removal the enumeration order (slots
\* 0..count-1) is strictly ascending in the byte-wise handle ordering, hence
\* the same for a given set of handles whatever the insertion order.
C8_EnumerationByteOrdered ==
    \A i, j \in 1..clientTable.count :
        i < j => ByteLess(clientTable.array[i].handle.handle,
                          clientTable.array[j].handle.handle)

Sign(n) == IF n < 0 THEN 0 - 1 ELSE IF n > 0 THEN 1 ELSE 0

ByteCompare(x, y) == IF ByteLess(x, y) THEN 0 - 1 ELSE IF ByteLess(y, x) THEN 1 ELSE 0

\* C9: handles are compared byte-wise (first differing byte, a proper prefix
\* first), and insert, lookup and remove take two handles for the same entry
\* exactly when their bytes are the same: insert fails exactly on a handle
\* whose bytes are present, lookup finds exactly the handles whose bytes are
\* present, and remove takes out exactly the entry with the given bytes.
C9_BytewiseIdentity ==
    [][ /\ last'.op = "add"
              => /\ \A i \in 1..clientTable.count :
                       Sign(comparesHandles(clientTable.array[i].handle,
                                            Handling(last'.payload)))
                          = ByteCompare(clientTable.array[i].handle.handle,
                                        last'.payload)
                 /\ (last'.len = 0 - 1) <=> HasHandle(clientTable, last'.payload)
                 /\ last'.len = 1 => Maps(clientTable', last'.payload, last'.sock)
        /\ last'.op = "removeByHandle"
              => /\ ~HasHandle(clientTable', last'.payload)
                 /\ \A h \in DirNames \ {last'.payload} :
                       HasHandle(clientTable', h) <=> HasHandle(clientTable, h)
        /\ \A h \in DirNames :
              (Lookup(clientTable', h) # 0 - 1) <=> HasHandle(clientTable', h)
      ]_vars

\* The enumeration of t is strictly ascending in the ordering that the table
\* itself uses.
Sorted(t) ==
    \A i \in 1..(t.count - 1) :
        comparesHandles(t.array[i].handle, t.array[i + 1].handle) < 0

\* C29: removeByHandle(h) and removeByConnection(c) take out exactly the one
\* matching entry and lower the count by one; every other entry keeps its
\* handle, its connection and its place relative to the others, so that the
\* directory stays sorted; when no entry matches, nothing changes.
C29_RemoveFrame ==
    [][ /\ last'.op = "removeByHandle"
           => LET h == last'.payload
              IN  IF HasHandle(clientTable, h)
                  THEN /\ Entries(clientTable')
                            = SelectSeq(Entries(clientTable),
                                        LAMBDA e : e.handle # h)
                       /\ clientTable'.count = clientTable.count - 1
                  ELSE /\ Entries(clientTable') = Entries(clientTable)
                       /\ clientTable'.count = clientTable.count
        /\ last'.op = "removeBySocket"
           => LET c == last'.sock
              IN  IF HasSocket(clientTable, c)
                  THEN /\ Entries(clientTable')
                            = SelectSeq(Entries(clientTable),
                                        LAMBDA e : e.sock # c)
                       /\ clientTable'.count = clientTable.count - 1
                  ELSE /\ Entries(clientTable') = Entries(clientTable)
                       /\ clientTable'.count = clientTable.count
        /\ last'.op \in { "removeByHandle", "removeBySocket" }
           => (Sorted(clientTable) => Sorted(clientTable'))
      ]_vars

\* The entries that a loop over all the slots of the table visits when it
\* skips the slots whose handle length is 0, as forwardBroadcast and
\* processListRequest do.
VisitedSlots(t) ==
    SelectSeq([i \in 1..t.capacity |-> t.array[i]],
              LAMBDA e : e.handle.handleLength # 0)

\* C40: after any sequence of directory operations 0 <= count <= capacity,
\* the slots 0..count-1 hold the live entries, each with a handle of 1 to
\* 100 bytes, and every slot from count to capacity-1 has handle length 0;
\* a loop over all capacity slots that skips the slots of length 0 then
\* visits exactly the count live entries, in the sorted order of the table
\* (the order of comparesHandles).
C40_LivePrefixZeroTail ==
    /\ 0 <= clientTable.count
    /\ clientTable.count <= clientTable.capacity
    /\ Len(clientTable.array) = clientTable.capacity
    /\ \A i \in 1..clientTable.count :
          /\ clientTable.array[i].handle.handleLength >= 1
          /\ clientTable.array[i].handle.handleLength <= MAXIMUM_CHARACTERS
          /\ clientTable.array[i].handle.handleLength
                = Len(clientTable.array[i].handle.handle)
    /\ \A i \in (clientTable.count + 1)..clientTable.capacity :
          clientTable.array[i].handle.handleLength = 0
    /\ VisitedSlots(clientTable)
          = [i \in 1..clientTable.count |-> clientTable.array[i]]
    /\ Sorted(clientTable)

\* The table has grown to twice its first capacity and an entry has just
\* been removed from it while it held more entries than its first capacity:
\* the slot the removal has freed has handle length 0 and still names the
\* socket of an entry.
C40_Witness ==
    /\ last.op \in { "removeByHandle", "removeBySocket" }
    /\ clientTable.capacity = INITIAL_CAPACITY * RESIZE_FACTOR
    /\ clientTable.count >= INITIAL_CAPACITY
    /\ clientTable.array[clientTable.count + 1].handle.handleLength = 0
    /\ clientTable.array[clientTable.count + 1].socketNumber # 0

====
